---- MODULE Spec2Model ----
(***************************************************************************)
(* Model of the TESPy network solver (tespy/networks/network.py): the      *)
(* solve() life cycle, the squareness check, the Newton loop with its      *)
(* convergence / stagnation / singularity exits, and the Newton step with  *)
(* its pressure damping and property range checks.                         *)
(*                                                                         *)
(* Topology: two connections in network order, 1 = feed of a               *)
(* ParabolicTrough, 2 = its outlet; the boundary components contribute no  *)
(* equations.  One bus carries the trough.                                 *)
(*                                                                         *)
(* Numbers are integers on fixed grids:                                    *)
(*   mass fractions   in units of err / 2      (FracOne = 1.0)             *)
(*   residual norms   in units of err ** 0.5 / 10                          *)
(*   enthalpies       in units of 1 / HDen                                 *)
(*   pressures and mass flows in whole SI units of a network whose value   *)
(*   ranges were configured small with set_attr(m_range=, p_range=, ...)   *)
(***************************************************************************)
EXTENDS Integers, Sequences, FiniteSets, TLC

VARIABLES
    pc,          \* position of the caller: "idle", "loop" (inside the for loop of solve_loop), "tail" (after the loop)
    fluids,      \* Network.fluids, the sorted fluid list as 1..n
    mode,        \* Network.mode
    design_path, \* Network.design_path, "none" for None
    redesign,    \* Network.redesign
    checked,     \* Network.checked
    index,       \* Network.conns.index: the connections in the network
    conns,       \* the connection objects, in the order of Network.conns.index
    comp,        \* the ParabolicTrough object
    bus,         \* the Bus object
    num_bus_eq, num_comp_eq, num_conn_eq, num_comp_vars, num_vars,
    max_iter, min_iter,
    iter,        \* Network.iter
    passes,      \* number of loop bodies run by the current solve_loop
    res,         \* trailing window of Network.res (the last ResWindow norms)
    range_checked, \* connections whose solve_check_props call returned in the last pass
    lin_dep,     \* Network.lin_dep: "unset" before the first matrix_inversion, then "true" or "false"
    progress,    \* Network.progress
    exit,        \* which statement ended the for loop of the current solve
    log,         \* messages logged by the current solve() call
    raised,      \* exception that ended the current solve() call, or "none"
    arg, out     \* input and result of the pure functions checked on their own

vars == <<pc, fluids, mode, design_path, redesign, checked, index, conns,
          comp, bus,
          num_bus_eq, num_comp_eq, num_conn_eq, num_comp_vars, num_vars,
          max_iter, min_iter, iter, passes, res, range_checked, lin_dep,
          progress, exit, log, raised, arg, out>>

-----------------------------------------------------------------------------
(* Grids and program constants *)

\* mass fraction 1.0 on the fraction grid
FracOne == 2000000

\* tespy.tools.global_vars.err (1e-6) on the fraction grid
err == 2

\* err ** 0.5 (1e-3) on the residual grid
ConvTol == 10

\* solve_loop: "if self.iter > 40"
StallIter == 40

\* solve_loop: the stagnation test reads res[iter - 3:], four norms
ResWindow == 4

\* solve_control: "if self.iter < 3" (second property check)
SecondCheckIter == 3

\* solve_check_props: "elif self.iter < 4 and not c.good_starting_values"
GenericCheckIter == 4

\* enthalpy grid: 1 J/kg = HDen units, so that h * 1.0001 and h * 0.9999 are exact
HDen == 10000

\* configured generic value ranges (set_defaults, overridden by set_attr)
m_range_SI == <<-6, 6>>
p_range_SI == <<4, 32>>
h_range_SI == <<1 * HDen, 7 * HDen>>

\* fp.Memorise.value_range[fl]: pmin, pmax of the property back end of
\* fluid 1 and of fluid 2
value_range == <<<<2, 64>>, <<3, 48>>>>

Conns == {1, 2}
PropNames == {"m", "p", "h", "T", "x", "v", "Td_bp"}
PrimaryVars == <<"m", "p", "h">>
Modes == {"design", "offdesign"}

B2N(b) == IF b THEN 1 ELSE 0
Card(S) == Cardinality(S)

\* the sum of the mass fractions of a fluid vector of one or two fluids
Sum(s) == IF Len(s) = 1 THEN s[1] ELSE s[1] + s[2]

\* x * (n / d) for a factor written as a decimal fraction in the source
Scale(x, n, d) == (x * n) \div d


-----------------------------------------------------------------------------
(* Objects *)

\* numpy.nan on the integer grids
NaN == -999999

\* a connection property container (m, p, h, T, x, v, Td_bp)
Prop(v, s) ==
    [val_SI |-> v, val0 |-> v, val_set |-> s, ref_set |-> FALSE,
     ref |-> [obj |-> 0, f |-> 1, d |-> 0], design |-> NaN]

\* a property with starting value v that references the same property of
\* connection obj: ref(obj, f, d)
Ref(v, obj, f, d) ==
    [Prop(v, FALSE) EXCEPT !.ref_set = TRUE,
                           !.ref = [obj |-> obj, f |-> f, d |-> d]]

\* number of outlets and of inlets of the component classes of the plant
\* (Source, ParabolicTrough, Sink)
NumPorts ==
    [source |-> [num_o |-> 1, num_i |-> 0],
     trough |-> [num_o |-> 1, num_i |-> 1],
     sink |-> [num_o |-> 0, num_i |-> 1]]

\* the parameters of a ParabolicTrough (ParabolicTrough.attr)
ParamNames == {"Q", "pr", "zeta", "D", "L", "ks", "E", "A", "eta_opt", "c_1",
               "c_2", "iam_1", "iam_2", "aoi", "doc", "Tamb"}
HydroElements == {"L", "ks", "D"}
EnergyElements == {"E", "eta_opt", "aoi", "doc", "c_1", "c_2", "iam_1",
                   "iam_2", "A", "Tamb"}

\* connections.csv of the design case: the stored design-point SI values
DesignFile == [c \in Conns |->
                 [m |-> 2, p |-> 16, h |-> 4 * HDen, T |-> 400, x |-> 0,
                  v |-> 1, Td_bp |-> 5]]

\* connections.csv of the init case: the starting values read from init_path
InitFile ==
    [c \in Conns |-> [m |-> 3, p |-> IF c = 1 THEN 16 ELSE 64, h |-> 3 * HDen,
                      fluid |-> <<FracOne, 0>>]]

-----------------------------------------------------------------------------
(* Property evaluator (tespy.tools.fluid_properties), an external pure      *)
(* function: one fixed evaluator that rejects pressures outside the fluid's *)
(* value range.                                                             *)

h_pT_raises(p, fl) == p < value_range[fl][1] \/ p > value_range[fl][2]
h_pT_min(p) == IF p < 8 THEN -2 * HDen ELSE 2 * HDen
h_pT_max(p) == 6 * HDen
h_mix_pQ(p, q) == IF q = 1 THEN 5 * HDen ELSE 3 * HDen
h_mix_pT(p, T) == 4 * HDen
h_mix_pT_min(p) == 2 * HDen
h_mix_pT_max(p) == 6 * HDen

\* hlp.single_fluid: the only fluid of the vector, or the fluid whose mass
\* fraction is 1, or None (0)
single_fluid(fl) ==
    IF Card(DOMAIN fl) = 1 THEN 1
    ELSE IF \E f \in DOMAIN fl : fl[f] = FracOne
         THEN CHOOSE f \in DOMAIN fl : fl[f] = FracOne
         ELSE 0

-----------------------------------------------------------------------------
(* initialise() *)

\* check_conns without the check of the inlets
check_conns_sources(cs) ==
    IF \E a, b \in index :
          /\ a < b /\ cs[a].source = cs[b].source
          /\ cs[a].source_id = cs[b].source_id
    THEN "source"
    ELSE "ok"

\* Network.check_conns: "source" if an outlet feeds more than one connection,
\* "target" if an inlet is fed by more than one connection, else "ok"
check_conns(cs) ==
    IF \E a, b \in index :
          /\ a < b /\ cs[a].source = cs[b].source
          /\ cs[a].source_id = cs[b].source_id
    THEN "source"
    ELSE IF \E a, b \in index :
               /\ a < b /\ cs[a].target = cs[b].target
               /\ cs[a].target_id = cs[b].target_id
    THEN "target"
    ELSE "ok"

\* Network.check_network: check_conns, then the number of outgoing and of
\* incoming connections of every component, in the order of pd.unique
check_network(cs) ==
    LET order == <<cs[1].source, cs[1].target, cs[2].source, cs[2].target>>
        rows == {i \in 1..4 : (i + 1) \div 2 \in index}
        num_o(k) == Card({c \in index : cs[c].source = k})
        num_i(k) == Card({c \in index : cs[c].target = k})
        bad(k) == num_o(k) # NumPorts[k].num_o \/ num_i(k) # NumPorts[k].num_i
        first == CHOOSE i \in rows :
                     bad(order[i])
                     /\ \A j \in rows : j < i => ~bad(order[j])
    IN  IF check_conns(cs) # "ok" THEN check_conns(cs)
        ELSE IF \A i \in rows : ~bad(order[i]) THEN "ok"
        ELSE IF num_o(order[first]) # NumPorts[order[first]].num_o
        THEN "outgoing"
        ELSE "incoming"

\* the connection, if any, at which init_set_properties meets a fluid that
\* is not in Network.fluids (0: none)
foreign_fluid(cs) ==
    LET foreign(c) == \E f \in DOMAIN cs[c].fluid.val :
                          \A i \in DOMAIN fluids : fluids[i] # f
    IN  IF \E c \in index : foreign(c)
        THEN CHOOSE c \in index :
                 foreign(c) /\ \A d \in index : d < c => ~foreign(d)
        ELSE 0

\* Network.init_set_properties: SI values of the user set values (the network
\* uses SI units), good_starting_values reset, fluid vector normalisation
init_set_properties(cs, init_previous) ==
    LET stop == foreign_fluid(cs)
    IN  [c \in Conns |->
            LET c0 == cs[c]
                c1 == IF init_previous THEN c0
                      ELSE [c0 EXCEPT !.good_starting_values = FALSE]
            IN  IF stop # 0 /\ c > stop THEN c0
                ELSE IF c = stop THEN c1
                ELSE IF Len(fluids) = 1
                THEN [c1 EXCEPT !.fluid.val =
                                    [f \in DOMAIN c1.fluid.val |-> FracOne]]
                ELSE c1]

\* Network.init_conn_design_params: design point values of one connection
init_conn_design_params(c0, c) ==
    [n \in DOMAIN c0 |->
        IF n \in PropNames THEN [c0[n] EXCEPT !.design = DesignFile[c][n]]
        ELSE c0[n]]

\* Network.init_offdesign_params, connection part
init_offdesign_params(cs) ==
    [c \in Conns |-> init_conn_design_params(cs[c], c)]

\* ParabolicTrough.comp_init: parameter groups and number of equations;
\* Component.comp_init counts the parameters flagged is_var
comp_init(cp, nf) ==
    LET hydro == \A e \in HydroElements : cp.is_set[e]
        energy == \A e \in EnergyElements : cp.is_set[e]
        opt == Card({v \in {"Q", "pr", "zeta"} : cp.is_set[v]})
    IN  [cp EXCEPT !.hydro_group = hydro,
                   !.energy_group = energy,
                   !.num_vars = Card(cp.is_var),
                   !.num_eq = nf + 1 + opt + B2N(hydro) + B2N(energy)]

\* ParabolicTrough.comp_init: the warnings for a group that was complete at
\* the previous initialisation (cp0) and is not complete any more (cp1)
group_warnings(cp0, cp1) ==
    (IF cp0.hydro_group /\ ~cp1.hydro_group THEN {"hydro_group"} ELSE {})
    \cup
    (IF cp0.energy_group /\ ~cp1.energy_group THEN {"energy_group"} ELSE {})

\* init_offdesign's connection loop without the reset of ref_set
init_offdesign_conns_keep_ref(cs) ==
    [c \in Conns |->
        LET c0 == cs[c] IN
        IF c0.local_design THEN c0
        ELSE [n \in DOMAIN c0 |->
                IF n \in PropNames
                THEN LET a == IF n \in c0.design
                              THEN [c0[n] EXCEPT !.val_set = FALSE]
                              ELSE c0[n]
                     IN  IF n \in c0.offdesign
                         THEN [a EXCEPT !.val_set = TRUE, !.val_SI = a.design]
                         ELSE a
                ELSE c0[n]]]

\* Network.init_offdesign, connection loop
init_offdesign_conns(cs) ==
    [c \in Conns |->
        LET c0 == cs[c] IN
        IF c0.local_design THEN c0
        ELSE [n \in DOMAIN c0 |->
                IF n \in PropNames
                THEN LET a == IF n \in c0.design
                              THEN [c0[n] EXCEPT !.val_set = FALSE,
                                                 !.ref_set = FALSE]
                              ELSE c0[n]
                     IN  IF n \in c0.offdesign
                         THEN [a EXCEPT !.val_set = TRUE, !.val_SI = a.design]
                         ELSE a
                ELSE c0[n]]]

\* Component.set_parameters, called by init_comp_design_params for the
\* components.csv of the design case: the stored design-point values
set_parameters(cp) ==
    [cp EXCEPT !.design_val = [v \in ParamNames |-> 3]]

\* Network.init_offdesign, component loop body: the parameters of the design
\* list are unset, those of the offdesign list are set, and those of type
\* dc_cp (all but Tamb) take their design value
init_offdesign_comp(cp0, nf) ==
    LET cp == set_parameters(cp0)
        sw == IF cp.local_design THEN cp
              ELSE [cp EXCEPT !.is_set = [v \in ParamNames |->
                        IF v \in cp.offdesign THEN TRUE
                        ELSE IF v \in cp.design THEN FALSE
                        ELSE cp.is_set[v]],
                              !.val = [v \in ParamNames |->
                        IF v \in cp.offdesign /\ v # "Tamb"
                        THEN cp.design_val[v]
                        ELSE cp.val[v]]]
    IN  comp_init(sw, nf)

\* Network.init_design, connection loop (no local_offdesign connections)
init_design_conns(cs, redes) ==
    [c \in Conns |->
        LET c0 == cs[c]
            c1 == [c0 EXCEPT !.m.design = NaN, !.p.design = NaN,
                             !.h.design = NaN]
        IN  IF ~redes THEN c1
            ELSE [n \in DOMAIN c1 |->
                    IF n \in PropNames
                    THEN IF n \in c1.offdesign
                         THEN [c1[n] EXCEPT !.val_set = FALSE]
                         ELSE IF n \in c1.design
                         THEN [c1[n] EXCEPT !.val_set = TRUE]
                         ELSE c1[n]
                    ELSE c1[n]]]

\* Network.init_design, component loop body (no local_offdesign components)
init_design_comp(cp, redes, nf) ==
    LET sw == IF ~redes THEN cp
              ELSE [cp EXCEPT !.is_set = [v \in ParamNames |->
                        IF v \in cp.offdesign THEN FALSE
                        ELSE IF v \in cp.design THEN TRUE
                        ELSE cp.is_set[v]]]
    IN  comp_init(sw, nf)

\* Network.init_count_connections_parameters
init_count_connections_parameters(c0) ==
    Card({n \in PropNames : c0[n].val_set})
    + Card({n \in {"m", "p", "h", "T"} : c0[n].ref_set})
    + Card({f \in DOMAIN c0.fluid.val_set : c0.fluid.val_set[f]})
    + B2N(c0.fluid.balance)

\* Network.init_precalc_properties
init_precalc_properties(c0) ==
    LET a == IF c0.x.val_set /\ ~c0.h.val_set
             THEN [c0 EXCEPT !.h.val_SI = h_mix_pQ(c0.p.val_SI, c0.x.val_SI)]
             ELSE c0
    IN  IF a.T.val_set /\ ~a.h.val_set
        THEN [a EXCEPT !.h.val_SI = h_mix_pT(a.p.val_SI, a.T.val_SI)]
        ELSE a

\* Network.init_properties, second loop, for connection c0 among the
\* connections cs: starting values of the referenced properties, then the
\* state dependent enthalpy starting values
init_properties_state(c0, cs) ==
    LET c1 == IF c0.good_starting_values THEN c0
              ELSE init_precalc_properties(
                     [n \in DOMAIN c0 |->
                        IF n \in {"m", "p", "h", "T"} /\ c0[n].ref_set
                           /\ ~c0[n].val_set
                        THEN [c0[n] EXCEPT !.val_SI =
                                cs[c0[n].ref.obj][n].val_SI * c0[n].ref.f
                                + c0[n].ref.d]
                        ELSE c0[n]])
        hg == h_mix_pQ(c1.p.val_SI, 1)
        hl == h_mix_pQ(c1.p.val_SI, 0)
    IN  IF (c1.Td_bp.val_set \/ c1.state.is_set) /\ ~c1.h.val_set
        THEN IF (c1.Td_bp.val_SI > 0 /\ c1.Td_bp.val_set)
                \/ (c1.state.val = "g" /\ c1.state.is_set)
             THEN IF c1.h.val_SI < hg
                  THEN [c1 EXCEPT !.h.val_SI = Scale(hg, 1001, 1000)] ELSE c1
             ELSE IF (c1.Td_bp.val_SI < 0 /\ c1.Td_bp.val_set)
                     \/ (c1.state.val = "l" /\ c1.state.is_set)
             THEN IF c1.h.val_SI > hl
                  THEN [c1 EXCEPT !.h.val_SI = Scale(hl, 999, 1000)] ELSE c1
             ELSE c1
        ELSE c1

\* Network.init_properties: the starting values of init_path, if given, and
\* the starting values of the free primary variables (first loop), then the
\* second loop over the connections in their order
init_properties(cs, init_path) ==
    LET first ==
          [c \in Conns |->
             LET c0 == IF init_path = "none" THEN cs[c]
                       ELSE [cs[c] EXCEPT !.m.val0 = InitFile[c].m,
                                          !.p.val0 = InitFile[c].p,
                                          !.h.val0 = InitFile[c].h,
                                          !.fluid.val =
                                             [f \in DOMAIN @ |->
                                                IF cs[c].fluid.val_set[f]
                                                THEN @[f]
                                                ELSE InitFile[c].fluid[f]],
                                          !.good_starting_values = TRUE]
             IN  [n \in DOMAIN c0 |->
                    IF n \in {"m", "p", "h"} /\ ~c0[n].val_set
                    THEN [c0[n] EXCEPT !.val_SI = c0[n].val0]
                    ELSE c0[n]]]
        a1 == init_properties_state(first[1], first)
        a2 == init_properties_state(first[2], [first EXCEPT ![1] = a1])
    IN  <<a1, a2>>

\* sum of init_count_connections_parameters over the connections
count_conn_eq(cs) ==
    (IF 1 \in index THEN init_count_connections_parameters(cs[1]) ELSE 0)
    + (IF 2 \in index THEN init_count_connections_parameters(cs[2]) ELSE 0)

-----------------------------------------------------------------------------
(* Newton step: solve_control and solve_check_props *)

\* the relaxation factor max(1, -increment / c.p.val_SI)
relax_full(p, d) ==
    LET n == IF p > 0 THEN -d ELSE d
        q == IF p > 0 THEN p ELSE -p
    IN  IF n > q THEN <<n, q>> ELSE <<1, 1>>

\* solve_control: relax = max(1, -increment / (0.5 * c.p.val_SI)), as the
\* fraction <<numerator, denominator>> with a positive denominator
relax(p, d) ==
    LET n == IF p > 0 THEN -2 * d ELSE 2 * d
        q == IF p > 0 THEN p ELSE -p
    IN  IF n > q THEN <<n, q>> ELSE <<1, 1>>

\* solve_control: c.p.val_SI + increment / relax, as the fraction
\* <<numerator, denominator>> with a positive denominator
damped_pressure(p, d) ==
    LET r == relax(p, d) IN <<p * r[1] + d * r[2], r[1]>>

\* the damped pressure is a point of the pressure grid
OnGrid(p, d) ==
    LET r == damped_pressure(p, d) IN r[1] % r[2] = 0

\* the clamp of the mass fractions without its upper branch
clamp_fraction_lower(x) ==
    IF x < err THEN 0 ELSE x

\* solve_control: keep mass fractions within [0, 1]
clamp_fraction(x) ==
    IF x < err THEN 0
    ELSE IF x > FracOne - err THEN FracOne
    ELSE x

\* the increment without the test of the mass flow's val_set flag
add_increment_any_m(c0, d, nf) ==
    LET c1 == [c0 EXCEPT !.m.val_SI = @ + d.m]
        c2 == IF ~c1.p.val_set
              THEN LET r == damped_pressure(c1.p.val_SI, d.p)
                   IN  [c1 EXCEPT !.p.val_SI = r[1] \div r[2]]
              ELSE c1
        c3 == IF ~c2.h.val_set
              THEN [c2 EXCEPT !.h.val_SI = @ + d.h] ELSE c2
    IN  IF nf > 1
        THEN [c3 EXCEPT !.fluid.val = [f \in DOMAIN c3.fluid.val |->
                clamp_fraction(IF ~c3.fluid.val_set[f]
                               THEN c3.fluid.val[f] + d.fluid[f]
                               ELSE c3.fluid.val[f])]]
        ELSE c3

\* solve_control: increment of mass flow, pressure, enthalpy and of the fluid
\* vector of one connection
add_increment(c0, d, nf) ==
    LET c1 == IF ~c0.m.val_set
              THEN [c0 EXCEPT !.m.val_SI = @ + d.m] ELSE c0
        c2 == IF ~c1.p.val_set
              THEN LET r == damped_pressure(c1.p.val_SI, d.p)
                   IN  [c1 EXCEPT !.p.val_SI = r[1] \div r[2]]
              ELSE c1
        c3 == IF ~c2.h.val_set
              THEN [c2 EXCEPT !.h.val_SI = @ + d.h] ELSE c2
    IN  IF nf > 1
        THEN [c3 EXCEPT !.fluid.val = [f \in DOMAIN c3.fluid.val |->
                clamp_fraction(IF ~c3.fluid.val_set[f]
                               THEN c3.fluid.val[f] + d.fluid[f]
                               ELSE c3.fluid.val[f])]]
        ELSE c3

\* the mass flow check without its upper limit
check_mass_flow_lower(c0) ==
    IF c0.m.val_SI <= m_range_SI[1] /\ ~c0.m.val_set
    THEN [c0 EXCEPT !.m.val_SI = m_range_SI[1]]
    ELSE c0

\* solve_check_props, mass flow part
check_mass_flow(c0) ==
    IF c0.m.val_SI <= m_range_SI[1] /\ ~c0.m.val_set
    THEN [c0 EXCEPT !.m.val_SI = m_range_SI[1]]
    ELSE IF c0.m.val_SI >= m_range_SI[2] /\ ~c0.m.val_set
    THEN [c0 EXCEPT !.m.val_SI = m_range_SI[2]]
    ELSE c0

\* solve_check_props, pressure of a single fluid connection
check_pressure_fluid(c0, fl) ==
    IF c0.p.val_SI < value_range[fl][1] /\ ~c0.p.val_set
    THEN [c0 EXCEPT !.p.val_SI = value_range[fl][1]]
    ELSE IF c0.p.val_SI > value_range[fl][2] /\ ~c0.p.val_set
    THEN [c0 EXCEPT !.p.val_SI = value_range[fl][2]]
    ELSE c0

\* solve_check_props, enthalpy of a single fluid connection
check_enthalpy_fluid(c0, it) ==
    LET hmin == h_pT_min(c0.p.val_SI)
        hmax == h_pT_max(c0.p.val_SI)
        c1 == IF c0.h.val_SI < hmin /\ ~c0.h.val_set
              THEN IF hmin < 0
                   THEN [c0 EXCEPT !.h.val_SI = Scale(hmin, 9999, 10000)]
                   ELSE [c0 EXCEPT !.h.val_SI = Scale(hmin, 10001, 10000)]
              ELSE IF c0.h.val_SI > hmax /\ ~c0.h.val_set
              THEN [c0 EXCEPT !.h.val_SI = Scale(hmax, 9999, 10000)]
              ELSE c0
        hg == h_mix_pQ(c1.p.val_SI, 1)
        hl == h_mix_pQ(c1.p.val_SI, 0)
    IN  IF (c1.Td_bp.val_set \/ c1.state.is_set) /\ ~c1.h.val_set
           /\ it < SecondCheckIter
        THEN IF c1.Td_bp.val_SI > 0 \/ (c1.state.val = "g" /\ c1.state.is_set)
             THEN IF c1.h.val_SI < hg
                  THEN [c1 EXCEPT !.h.val_SI = Scale(hg, 101, 100)] ELSE c1
             ELSE IF c1.Td_bp.val_SI < 0
                     \/ (c1.state.val = "l" /\ c1.state.is_set)
             THEN IF c1.h.val_SI > hl
                  THEN [c1 EXCEPT !.h.val_SI = Scale(hl, 99, 100)] ELSE c1
             ELSE c1
        ELSE c1

\* solve_check_temperature
solve_check_temperature(c0) ==
    LET c1 == IF c0.h.val_SI < h_mix_pT_min(c0.p.val_SI)
              THEN [c0 EXCEPT !.h.val_SI = h_mix_pT_min(c0.p.val_SI)]
              ELSE c0
    IN  IF c1.h.val_SI > h_mix_pT_max(c1.p.val_SI)
        THEN [c1 EXCEPT !.h.val_SI = h_mix_pT_max(c1.p.val_SI)]
        ELSE c1

\* solve_check_props, generic branch for mixtures
check_generic(c0) ==
    LET c1 == IF c0.p.val_SI <= p_range_SI[1] /\ ~c0.p.val_set
              THEN [c0 EXCEPT !.p.val_SI = p_range_SI[1]]
              ELSE IF c0.p.val_SI >= p_range_SI[2] /\ ~c0.p.val_set
              THEN [c0 EXCEPT !.p.val_SI = p_range_SI[2]]
              ELSE c0
        c2 == IF c1.h.val_SI < h_range_SI[1] /\ ~c1.h.val_set
              THEN [c1 EXCEPT !.h.val_SI = h_range_SI[1]]
              ELSE IF c1.h.val_SI > h_range_SI[2] /\ ~c1.h.val_set
              THEN [c1 EXCEPT !.h.val_SI = h_range_SI[2]]
              ELSE c1
    IN  IF c2.T.val_set /\ ~c2.h.val_set
        THEN solve_check_temperature(c2) ELSE c2

\* Network.solve_check_props: the connection after the check, and whether the
\* property evaluator's ValueError left the method
solve_check_props(c0, it) ==
    IF single_fluid(c0.fluid.val) # 0
    THEN LET fl == single_fluid(c0.fluid.val)
             c1 == check_pressure_fluid(c0, fl)
         IN  IF h_pT_raises(c1.p.val_SI, fl)
             THEN [c |-> c1, raised |-> TRUE]
             ELSE [c |-> check_mass_flow(check_enthalpy_fluid(c1, it)),
                   raised |-> FALSE]
    ELSE IF it < GenericCheckIter /\ ~c0.good_starting_values
    THEN [c |-> check_mass_flow(check_generic(c0)), raised |-> FALSE]
    ELSE [c |-> check_mass_flow(c0), raised |-> FALSE]

\* solve_control: increment and clamping of the component variable
add_increment_var(cp, d) ==
    IF cp.num_vars > 0
    THEN [cp EXCEPT !.var.val =
            IF @ + d < cp.var.min_val THEN cp.var.min_val
            ELSE IF @ + d > cp.var.max_val THEN cp.var.max_val
            ELSE @ + d]
    ELSE cp

\* one pass of a loop over the connections in network order that stops at the
\* first connection whose check raises
check_all(cs, it) ==
    LET r1 == solve_check_props(cs[1], it)
        r2 == solve_check_props(cs[2], it)
    IN  IF r1.raised
        THEN [conns |-> [cs EXCEPT ![1] = r1.c], raised |-> TRUE]
        ELSE [conns |-> [cs EXCEPT ![1] = r1.c, ![2] = r2.c],
              raised |-> r2.raised]

\* Network.solve_control after a successful matrix inversion: the state after
\* the step, whether a ValueError left the method, and the connections whose
\* solve_check_props call returned
newton_step(cs, cp, inc, it, nf) ==
    LET r1 == solve_check_props(add_increment(cs[1], inc.conn[1], nf), it)
        r2 == solve_check_props(add_increment(cs[2], inc.conn[2], nf), it)
        cp1 == add_increment_var(cp, inc.var)
    IN  IF r1.raised
        THEN [conns |-> [cs EXCEPT ![1] = r1.c], comp |-> cp, raised |-> TRUE,
              checked |-> {}]
        ELSE IF r2.raised
        THEN [conns |-> [cs EXCEPT ![1] = r1.c, ![2] = r2.c], comp |-> cp,
              raised |-> TRUE, checked |-> {1}]
        ELSE LET cs1 == [cs EXCEPT ![1] = r1.c, ![2] = r2.c]
             IN  IF it < SecondCheckIter
                 THEN LET r == check_all(cs1, it)
                      IN  [conns |-> r.conns, comp |-> cp1,
                           raised |-> r.raised, checked |-> Conns]
                 ELSE [conns |-> cs1, comp |-> cp1, raised |-> FALSE,
                       checked |-> Conns]

\* solve_control without the return on a linear dependency
solve_control_through(cs, cp, inc, it, nf, singular) ==
    newton_step(cs, cp, inc, it, nf)

\* Network.solve_control: nothing is changed if matrix_inversion reported a
\* linear dependency
solve_control(cs, cp, inc, it, nf, singular) ==
    IF singular
    THEN [conns |-> cs, comp |-> cp, raised |-> FALSE, checked |-> {}]
    ELSE newton_step(cs, cp, inc, it, nf)

-----------------------------------------------------------------------------
(* Property evaluator results used by postprocessing *)

T_mix_ph(p, h) == 300 + h \div HDen
v_mix_ph(p, h) == 1
Q_ph(p, h) == IF h < 3 * HDen THEN 0 ELSE 1

-----------------------------------------------------------------------------
(* solve() *)

\* postprocessing without the flag for good starting values
postprocessing_cold(cs) ==
    [c \in Conns |->
        LET c0 == cs[c]
            T == T_mix_ph(c0.p.val_SI, c0.h.val_SI)
            fl == single_fluid(c0.fluid.val)
            c1 == [c0 EXCEPT !.T.val_SI = T]
            c2 == IF fl = 0 /\ h_mix_pT(c1.p.val_SI, T) # c1.h.val_SI
                  THEN [c1 EXCEPT !.T.val_SI = NaN, !.v.val_SI = NaN]
                  ELSE LET c3 == [c1 EXCEPT !.v.val_SI =
                                    v_mix_ph(c1.p.val_SI, c1.h.val_SI)
                                    * c1.m.val_SI]
                       IN  IF fl # 0 /\ ~c3.x.val_set
                           THEN [c3 EXCEPT !.x.val_SI =
                                   Q_ph(c3.p.val_SI, c3.h.val_SI)]
                           ELSE c3
        IN  [c2 EXCEPT !.m.val0 = c2.m.val_SI,
                       !.p.val0 = c2.p.val_SI,
                       !.h.val0 = c2.h.val_SI]]

\* Network.postprocessing, connection loop: derived properties, starting
\* values of the next calculation
postprocessing(cs) ==
    [c \in Conns |->
        LET c0 == cs[c]
            T == T_mix_ph(c0.p.val_SI, c0.h.val_SI)
            fl == single_fluid(c0.fluid.val)
            c1 == [c0 EXCEPT !.good_starting_values = TRUE, !.T.val_SI = T]
            c2 == IF fl = 0 /\ h_mix_pT(c1.p.val_SI, T) # c1.h.val_SI
                  THEN [c1 EXCEPT !.T.val_SI = NaN, !.v.val_SI = NaN]
                  ELSE LET c3 == [c1 EXCEPT !.v.val_SI =
                                    v_mix_ph(c1.p.val_SI, c1.h.val_SI)
                                    * c1.m.val_SI]
                       IN  IF fl # 0 /\ ~c3.x.val_set
                           THEN [c3 EXCEPT !.x.val_SI =
                                   Q_ph(c3.p.val_SI, c3.h.val_SI)]
                           ELSE c3
        IN  [c2 EXCEPT !.m.val0 = c2.m.val_SI,
                       !.p.val0 = c2.p.val_SI,
                       !.h.val0 = c2.h.val_SI]]

\* ParabolicTrough.calc_parameters: the heat flow, the pressure ratio (on the
\* grid of 1 / HDen), zeta (pi ** 2 as 98696 / 10000) and, with the energy
\* group, the heat loss are written to the parameters, whether they are
\* specified, variable or neither; var is the container of the parameter
\* flagged is_var
calc_parameters(cp, cs) ==
    LET i == cs[1]
        o == cs[2]
        Q == i.m.val_SI * (o.h.val_SI - i.h.val_SI)
        pr == IF i.p.val_SI = 0 THEN NaN
              ELSE (o.p.val_SI * HDen) \div i.p.val_SI
        vol == v_mix_ph(i.p.val_SI, i.h.val_SI)
               + v_mix_ph(o.p.val_SI, o.h.val_SI)
        zeta == IF i.m.val_SI = 0 \/ vol = 0 THEN NaN
                ELSE ((i.p.val_SI - o.p.val_SI) * 98696)
                     \div (10000 * 4 * i.m.val_SI * i.m.val_SI * vol)
        new == [Q |-> Q, pr |-> pr, zeta |-> zeta]
    IN  [cp EXCEPT !.val = [v \in ParamNames |->
                              IF v \in DOMAIN new THEN new[v] ELSE @[v]],
                   !.var.val = IF \E v \in DOMAIN new : v \in cp.is_var
                               THEN new[CHOOSE v \in DOMAIN new :
                                          v \in cp.is_var]
                               ELSE @,
                   !.Q_loss = IF cp.energy_group
                              THEN cp.val["E"] * cp.val["A"] - Q
                              ELSE @]

\* HeatExchangerSimple.bus_func with a unit characteristic: the energy
\* transferred, m_in * (h_out - h_in)
bus_func(cs) == cs[1].m.val_SI * (cs[2].h.val_SI - cs[1].h.val_SI)

\* solve_determination without its second branch
solve_determination_lax(n, nv) ==
    IF n > nv THEN "too_many" ELSE "ok"

\* Network.solve_determination: "too_many", "not_enough" or "ok"
solve_determination(n, nv) ==
    IF n > nv THEN "too_many"
    ELSE IF n < nv THEN "not_enough"
    ELSE "ok"

\* Network.solve up to the first pass of the loop: preamble, check_network,
\* initialise, solve_determination and the set-up of solve_loop
solve(md, init_path, dp, maxit, minit, init_only, init_previous) ==
    LET nf == Len(fluids)
        offd == md = "offdesign"
        cs1 == init_set_properties(conns, init_previous)
        cs2 == IF offd
               THEN init_offdesign_conns(init_offdesign_params(cs1))
               ELSE init_design_conns(cs1, redesign)
        cp2 == IF offd THEN init_offdesign_comp(comp, nf)
               ELSE init_design_comp(comp, redesign, nf)
        cs3 == init_properties(cs2, init_path)
        nbus == B2N(bus.P.is_set)
        nconn == count_conn_eq(cs3)
        n == cp2.num_eq + nconn + nbus
        nv == (nf + 3) * Card(index) + cp2.num_vars
        det == solve_determination(n, nv)
        net == IF checked THEN "ok" ELSE check_network(conns)
        warn == group_warnings(comp, cp2)
        \* the loops of initialise run over the connections of the network
        indexed(cs) == [c \in Conns |-> IF c \in index THEN cs[c]
                                        ELSE conns[c]]
    IN  /\ pc = "idle"
        /\ mode' = md
        /\ design_path' = dp
        /\ max_iter' = maxit
        /\ min_iter' = minit
        /\ iter' = 0
        /\ passes' = 0
        /\ range_checked' = {}
        /\ exit' = "none"
        /\ checked' = (net = "ok")
        /\ UNCHANGED <<fluids, index, bus, lin_dep, arg, out>>
        /\ IF net # "ok"
           THEN \* check_network: the ports are not connected properly
                /\ raised' = "TESPyNetworkError"
                /\ log' = {net}
                /\ pc' = "idle"
                /\ UNCHANGED <<redesign, conns, comp, num_bus_eq, num_comp_eq,
                               num_conn_eq, num_comp_vars, num_vars, res,
                               progress>>
           ELSE IF index = {}
           THEN \* initialise: no connections have been added
                /\ raised' = "TESPyNetworkError"
                /\ log' = {"no_connections"}
                /\ pc' = "idle"
                /\ UNCHANGED <<redesign, conns, comp, num_bus_eq, num_comp_eq,
                               num_conn_eq, num_comp_vars, num_vars, res,
                               progress>>
           ELSE IF foreign_fluid(conns) # 0
           THEN \* init_set_properties: a fluid that is not in Network.fluids
                /\ conns' = indexed(cs1)
                /\ num_bus_eq' = 0 /\ num_comp_eq' = 0
                /\ num_conn_eq' = 0 /\ num_comp_vars' = 0
                /\ raised' = "TESPyNetworkError"
                /\ log' = {"fluid"}
                /\ pc' = "idle"
                /\ UNCHANGED <<redesign, comp, num_vars, res, progress>>
           ELSE IF offd /\ dp = "none"
           THEN \* initialise: no design_path for an offdesign calculation
                /\ conns' = indexed(cs1)
                /\ redesign' = TRUE
                /\ num_bus_eq' = 0 /\ num_comp_eq' = 0
                /\ num_conn_eq' = 0 /\ num_comp_vars' = 0
                /\ raised' = "TESPyNetworkError"
                /\ log' = {"design_path"}
                /\ pc' = "idle"
                /\ UNCHANGED <<comp, num_vars, res, progress>>
           ELSE /\ conns' = indexed(cs3)
                /\ redesign' = (redesign \/ offd)
                /\ comp' = cp2
                /\ num_bus_eq' = nbus
                /\ num_comp_eq' = cp2.num_eq
                /\ num_conn_eq' = nconn
                /\ num_comp_vars' = cp2.num_vars
                /\ IF init_only
                   THEN /\ raised' = "none" /\ log' = warn /\ pc' = "idle"
                        /\ UNCHANGED <<num_vars, res, progress>>
                   ELSE /\ num_vars' = nv
                        /\ IF det # "ok"
                           THEN /\ raised' = "TESPyNetworkError"
                                /\ log' = warn \cup {det}
                                /\ pc' = "idle"
                                /\ UNCHANGED <<res, progress>>
                           ELSE IF index # Conns /\ maxit > 0
                           THEN \* solve_components: a component holds the
                                \* conn_loc of the last check_network, a
                                \* location beyond the variables of the
                                \* connections that are left
                                /\ raised' = "IndexError"
                                /\ log' = warn
                                /\ res' = <<>>
                                /\ progress' = TRUE
                                /\ pc' = "idle"
                           ELSE /\ raised' = "none"
                                /\ log' = warn
                                /\ res' = <<>>
                                /\ progress' = TRUE
                                /\ pc' = IF maxit = 0 THEN "tail" ELSE "loop"

\* np.append(self.res, norm), keeping the norms the loop can still read
append_res(rs, r) ==
    LET a == Append(rs, r)
    IN  IF Len(a) > ResWindow THEN SubSeq(a, Len(a) - ResWindow + 1, Len(a))
        ELSE a

\* the stagnation test without the comparison of the last two norms
no_progress_window_only(rs) ==
    LET k == Len(rs)
    IN  /\ k >= ResWindow
        /\ \A i \in (k - 3)..k : 100 * rs[i] >= 95 * rs[k - 2]

\* solve_loop: the stagnation test on the window of norms,
\* all(res[iter - 3:] >= res[-3] * 0.95) and res[-1] >= res[-2] * 0.95
no_progress(rs) ==
    LET k == Len(rs)
    IN  /\ k >= ResWindow
        /\ \A i \in (k - 3)..k : 100 * rs[i] >= 95 * rs[k - 2]
        /\ 100 * rs[k] >= 95 * rs[k - 1]

\* the convergence test without the minimum iteration count
converged_early(it, minit, r) == r < ConvTol

\* solve_loop: the convergence test of one pass
converged(it, minit, r) == it >= minit /\ r < ConvTol

\* the row of a reference without the factor in its Jacobian
reference_row_unit(cs, c, n, pos, nf) ==
    LET r == cs[c][n].ref
    IN  [kind |-> "ref", conn |-> c, prop |-> n,
         res |-> cs[c][n].val_SI - (cs[r.obj][n].val_SI * r.f + r.d),
         jac |-> [j \in 0..((nf + 3) * Card(Conns) - 1) |->
                    IF j = (r.obj - 1) * (nf + 3) + pos THEN -1
                    ELSE IF j = (c - 1) * (nf + 3) + pos THEN 1
                    ELSE 0]]

\* Network.solve_connections, referenced mass flow, pressure or enthalpy n
\* (offset pos) of connection c: residual and Jacobian entries by column
reference_row(cs, c, n, pos, nf) ==
    LET r == cs[c][n].ref
    IN  [kind |-> "ref", conn |-> c, prop |-> n,
         res |-> cs[c][n].val_SI - (cs[r.obj][n].val_SI * r.f + r.d),
         jac |-> [j \in 0..((nf + 3) * Card(Conns) - 1) |->
                    IF j = (r.obj - 1) * (nf + 3) + pos THEN -r.f
                    ELSE IF j = (c - 1) * (nf + 3) + pos THEN 1
                    ELSE 0]]

\* Network.solve_connections: the rows written in iteration it, in the order
\* of their row index k (the first one at k = num_comp_eq). A row of a
\* referenced or specified primary variable, of a specified mass fraction or
\* of the fluid balance carries its residual and its Jacobian entries by
\* column; of a row whose entries come from the property evaluator (T, x, v,
\* Td_bp) only the position is kept
solve_connections(cs, it, nf) ==
    LET ncv == nf + 3
        cols == 0..(ncv * Card(Conns) - 1)
        pos == [m |-> 0, p |-> 1, h |-> 2]
        Opt(cond, row) == IF cond THEN <<row>> ELSE <<>>
        ref_row(c, n) == reference_row(cs, c, n, pos[n], nf)
        evaluated(c, n, by) ==
            [kind |-> "evaluated", conn |-> c, prop |-> n, by |-> by]
        balance(c) ==
            [kind |-> "balance", conn |-> c, prop |-> "fluid",
             res |-> FracOne - Sum(cs[c].fluid.val),
             jac |-> [j \in cols |->
                        IF \E f \in 0..(nf - 1) : j = (c - 1) + 3 + f
                        THEN -1 ELSE 0]]
        static(c, n) ==
            [kind |-> "static", conn |-> c, prop |-> n, res |-> 0,
             jac |-> [j \in cols |->
                        IF j = (c - 1) * ncv + pos[n] THEN 1 ELSE 0]]
        fraction(c, f) ==
            [kind |-> "static", conn |-> c, prop |-> "fluid", res |-> 0,
             jac |-> [j \in cols |->
                        IF j = (c - 1) * ncv + 3 + (f - 1) THEN 1 ELSE 0]]
        fractions(c) ==
            Opt(cs[c].fluid.val_set[1], fraction(c, 1))
            \o Opt(nf > 1 /\ cs[c].fluid.val_set[nf], fraction(c, nf))
        dynamic(c) ==
            Opt(cs[c].m.ref_set, ref_row(c, "m"))
            \o Opt(cs[c].p.ref_set, ref_row(c, "p"))
            \o Opt(cs[c].h.ref_set, ref_row(c, "h"))
            \o Opt(cs[c].T.val_set, evaluated(c, "T", "val"))
            \o Opt(cs[c].T.ref_set, evaluated(c, "T", "ref"))
            \o Opt(cs[c].x.val_set, evaluated(c, "x", "val"))
            \o Opt(cs[c].v.val_set, evaluated(c, "v", "val"))
            \o Opt(cs[c].Td_bp.val_set, evaluated(c, "Td_bp", "val"))
            \o Opt(cs[c].fluid.balance, balance(c))
        specified(c) ==
            Opt(cs[c].m.val_set, static(c, "m"))
            \o Opt(cs[c].p.val_set, static(c, "p"))
            \o Opt(cs[c].h.val_set, static(c, "h"))
            \o fractions(c)
    IN  dynamic(1) \o dynamic(2)
        \o (IF it = 0 THEN specified(1) \o specified(2) ELSE <<>>)

\* Network.matrix_inversion: lin_dep and the increment; the increment is
\* residual * 0 if the inversion failed
matrix_inversion(singular, inc) ==
    IF singular
    THEN [lin_dep |-> TRUE,
          increment |->
              [conn |-> [c \in Conns |->
                           [m |-> 0, p |-> 0, h |-> 0,
                            fluid |-> [f \in 1..2 |-> 0]]],
               var |-> 0]]
    ELSE [lin_dep |-> FALSE, increment |-> inc]

\* solve_loop: one body of the for loop. r is the norm of the residual
\* assembled in this pass, singular the outcome of matrix_inversion, inc the
\* increment it computed
solve_loop_pass(r, singular, inc) ==
    LET it == passes
        nf == Len(fluids)
        mi == matrix_inversion(singular, inc)
        sc == solve_control(conns, comp, mi.increment, it, nf, mi.lin_dep)
        rs == append_res(res, r)
        conv == converged(it, min_iter, r)
        stall == ~conv /\ ~singular /\ it > StallIter /\ no_progress(rs)
        last == passes + 1 = max_iter
    IN  /\ pc = "loop"
        /\ ~singular => \A c \in Conns :
              conns[c].p.val_set \/ OnGrid(conns[c].p.val_SI, inc.conn[c].p)
        /\ iter' = it
        /\ passes' = passes + 1
        /\ lin_dep' = IF mi.lin_dep THEN "true" ELSE "false"
        /\ UNCHANGED <<fluids, index, mode, design_path, redesign, checked, bus,
                       num_bus_eq,
                       num_comp_eq, num_conn_eq, num_comp_vars, num_vars,
                       max_iter, min_iter, log, arg, out>>
        /\ conns' = sc.conns
        /\ comp' = sc.comp
        /\ range_checked' = sc.checked
        /\ IF sc.raised
           THEN \* ValueError of the property evaluator leaves solve()
                /\ raised' = "ValueError"
                /\ exit' = "raised"
                /\ pc' = "idle"
                /\ UNCHANGED <<res, progress>>
           ELSE /\ res' = rs
                /\ raised' = "none"
                /\ progress' = IF stall THEN FALSE ELSE progress
                /\ exit' = IF singular THEN "singular"
                           ELSE IF conv THEN "converged"
                           ELSE IF stall THEN "stalled"
                           ELSE IF last THEN "exhausted"
                           ELSE "none"
                /\ pc' = IF exit' # "none" THEN "tail" ELSE "loop"

\* the end of solve_loop and the rest of solve(): the iteration count
\* warning, the singularity report, postprocessing, the progress warning
solve_tail ==
    LET cap == IF iter = max_iter - 1 THEN {"max_iter"} ELSE {}
    IN  /\ pc = "tail"
        /\ pc' = "idle"
        /\ UNCHANGED <<fluids, index, mode, design_path, redesign, checked,
                       num_bus_eq,
                       num_comp_eq, num_conn_eq, num_comp_vars, num_vars,
                       max_iter, min_iter, iter, passes, res, range_checked,
                       lin_dep, progress, exit, arg, out>>
        /\ IF lin_dep = "unset"
           THEN \* self.lin_dep is first assigned in matrix_inversion
                /\ raised' = "AttributeError"
                /\ log' = log \cup cap
                /\ UNCHANGED <<conns, comp, bus>>
           ELSE IF lin_dep = "true"
           THEN /\ log' = log \cup cap \cup {"singular"}
                /\ raised' = "none"
                /\ UNCHANGED <<conns, comp, bus>>
           ELSE /\ conns' = [c \in Conns |->
                              IF c \in index THEN postprocessing(conns)[c]
                              ELSE conns[c]]
                /\ comp' = calc_parameters(comp, postprocessing(conns))
                /\ bus' = [bus EXCEPT !.P.val = bus_func(conns)]
                /\ raised' = "none"
                /\ log' = log \cup cap \cup {"postprocessing"}
                             \cup (IF ~progress THEN {"no_progress"}
                                   ELSE {"complete"})

-----------------------------------------------------------------------------
(* Networks *)

\* a connection as add_conns leaves it, with starting values
Connection(nf) ==
    [m |-> Prop(1, FALSE), p |-> Prop(16, FALSE), h |-> Prop(4 * HDen, FALSE),
     T |-> Prop(400, FALSE), x |-> Prop(0, FALSE), v |-> Prop(1, FALSE),
     Td_bp |-> Prop(0, FALSE),
     fluid |-> [val |-> [f \in 1..nf |-> IF f = 1 THEN FracOne ELSE 0],
                val_set |-> [f \in 1..nf |-> FALSE],
                balance |-> FALSE],
     state |-> [is_set |-> FALSE, val |-> "none"],
     good_starting_values |-> FALSE,
     design |-> {}, offdesign |-> {}, local_design |-> FALSE,
     source |-> "", source_id |-> "", target |-> "", target_id |-> ""]

\* a connection with mass flow, pressure, enthalpy and composition specified
Feed(nf, m, p, h, x) ==
    [Connection(nf) EXCEPT !.m = Prop(m, TRUE), !.p = Prop(p, TRUE),
                           !.h = Prop(h, TRUE),
                           !.fluid.val = x,
                           !.fluid.val_set = [f \in 1..nf |-> TRUE]]

\* the range of the variable heat flow
MaxQ == 8

\* a ParabolicTrough with the parameters in S specified
Trough(S, des, offdes, isvar) ==
    [is_set |-> [v \in ParamNames |-> v \in S],
     is_var |-> isvar,
     hydro_group |-> FALSE, energy_group |-> FALSE,
     design |-> des, offdesign |-> offdes, local_design |-> FALSE,
     num_eq |-> 0, num_vars |-> 0,
     var |-> [val |-> 1, min_val |-> 0, max_val |-> 2],
     val |-> [v \in ParamNames |-> 1],
     design_val |-> [v \in ParamNames |-> NaN],
     Q_loss |-> NaN]

Bus(isset) == [P |-> [is_set |-> isset, val |-> 5]]

\* Connection(source, source_id, target, target_id): a port of a connection
Port(s, sid, t, tid) ==
    [source |-> s, source_id |-> sid, target |-> t, target_id |-> tid]

\* the ports of the plant: source -> trough -> sink
Layout ==
    <<Port("source", "out1", "trough", "in1"),
      Port("trough", "out1", "sink", "in1")>>

\* Network.add_conns: the connections with their ports, in the order of
\* Network.conns.index
add_conns(cs, ports) ==
    [c \in Conns |->
        [cs[c] EXCEPT !.source = ports[c].source,
                      !.source_id = ports[c].source_id,
                      !.target = ports[c].target,
                      !.target_id = ports[c].target_id]]

Pure(nf) == [f \in 1..nf |-> IF f = 1 THEN FracOne ELSE 0]

\* networks of the loop specification: square in both modes; square in design
\* only; square in offdesign only; a mixture with a bus, a variable and a
\* starting value of the free mass flow above m_range_SI; a referenced
\* pressure in the design list and names that are in the design list and in
\* the offdesign list; a connection and a component with local_design; the
\* heat flow of the component as a variable (Q = 'var')
LoopNetworks ==
    { [nf |-> 1,
       conns |-> <<Feed(1, 2, 16, 3 * HDen, Pure(1)), Connection(1)>>,
       comp |-> Trough({"pr", "Q"}, {"pr"}, {"zeta"}, {}),
       ports |-> Layout, bus |-> Bus(FALSE)],
      [nf |-> 1,
       conns |-> <<Feed(1, 2, 16, 3 * HDen, Pure(1)),
                   [Connection(1) EXCEPT !.p = Prop(8, TRUE),
                                         !.design = {"p"}]>>,
       comp |-> Trough({"Q"}, {}, {}, {}),
       ports |-> Layout, bus |-> Bus(FALSE)],
      [nf |-> 1,
       conns |-> <<Feed(1, 2, 16, 3 * HDen, Pure(1)),
                   [Connection(1) EXCEPT !.p = Prop(8, TRUE),
                                         !.design = {"p"}]>>,
       comp |-> Trough({"pr", "Q"}, {}, {}, {}),
       ports |-> Layout, bus |-> Bus(FALSE)],
      [nf |-> 2,
       conns |-> <<Feed(2, 2, 16, 3 * HDen, Pure(2)),
                   [Connection(2) EXCEPT !.m = Prop(8, FALSE)]>>,
       comp |-> Trough({"Q", "L", "ks", "D"}, {}, {}, {"D"}),
       ports |-> Layout, bus |-> Bus(TRUE)],
      [nf |-> 1,
       conns |-> <<Feed(1, 2, 16, 3 * HDen, Pure(1)),
                   [Connection(1) EXCEPT !.p = Ref(16, 1, 2, 0),
                                         !.design = {"p", "h"},
                                         !.offdesign = {"h"}]>>,
       comp |-> Trough({"Q"}, {"Q", "pr"}, {"pr", "Tamb"}, {}),
       ports |-> Layout, bus |-> Bus(FALSE)],
      [nf |-> 1,
       conns |-> <<Feed(1, 2, 16, 3 * HDen, Pure(1)),
                   [Connection(1) EXCEPT !.p = Ref(16, 1, 2, 0),
                                         !.design = {"p"},
                                         !.offdesign = {"h"},
                                         !.local_design = TRUE]>>,
       comp |-> [Trough({"Q"}, {"Q"}, {"pr"}, {})
                   EXCEPT !.local_design = TRUE],
       ports |-> Layout, bus |-> Bus(FALSE)],
      [nf |-> 1,
       conns |-> <<Feed(1, 2, 16, 3 * HDen, Pure(1)),
                   [Connection(1) EXCEPT !.h = Prop(4 * HDen, TRUE)]>>,
       comp |-> [Trough({"pr", "Q"}, {}, {}, {"Q"})
                   EXCEPT !.var = [val |-> 1, min_val |-> -MaxQ,
                                   max_val |-> MaxQ]],
       ports |-> Layout, bus |-> Bus(FALSE)] }

\* the objects of a network before its first solve()
InitObjects(nw) ==
    /\ pc = "idle"
    /\ fluids = [f \in 1..nw.nf |-> f]
    /\ mode = "design"
    /\ design_path = "none"
    /\ redesign = FALSE
    /\ checked = FALSE
    /\ index = Conns
    /\ conns = add_conns(nw.conns, nw.ports)
    /\ comp = nw.comp
    /\ bus = nw.bus
    /\ num_bus_eq = 0 /\ num_comp_eq = 0 /\ num_conn_eq = 0
    /\ num_comp_vars = 0 /\ num_vars = 0
    /\ max_iter = 0 /\ min_iter = 0 /\ iter = 0 /\ passes = 0
    /\ res = <<>>
    /\ range_checked = {}
    /\ lin_dep = "unset"
    /\ progress = TRUE
    /\ exit = "none"
    /\ log = {}
    /\ raised = "none"

InitNetwork(nw) ==
    /\ InitObjects(nw)
    /\ arg = <<>>
    /\ out = <<>>

-----------------------------------------------------------------------------
(* Life cycle specification: solve() called again and again on one network, *)
(* in both modes, with short loops                                          *)

\* largest max_iter of the life cycle specification
MaxIterShort == 3

\* residual norms on the residual grid: one below the threshold, and two
\* above it whose ratio is exactly the stagnation margin
ResVals == {9, 19, 20}

Increment(m, p, h, x, v) ==
    [conn |-> [c \in Conns |->
                 [m |-> m, p |-> p, h |-> h,
                  fluid |-> [f \in 1..2 |-> IF f = 1 THEN x ELSE -x]]],
     var |-> v]

\* no increment, and one that pushes every free variable to its bound
CoarseIncrements == {Increment(0, 0, 0, 0, 0),
                     Increment(16, -100, 8 * HDen, -FracOne, 4)}

\* a call of solve()
Call(md, dp, maxit, minit, io, ip) ==
    [mode |-> md, init_path |-> "none", design_path |-> dp,
     max_iter |-> maxit, min_iter |-> minit, init_only |-> io,
     init_previous |-> ip]

\* the calls of solve() of a user
Solve(calls) ==
    \E k \in calls :
        solve(k.mode, k.init_path, k.design_path, k.max_iter, k.min_iter,
              k.init_only, k.init_previous)

\* one pass of the loop, for every outcome of the assembly and the inversion
Pass(norms, incs) ==
    \E r \in norms, singular \in BOOLEAN, inc \in incs :
        solve_loop_pass(r, singular, inc)

Init == \E nw \in LoopNetworks : InitNetwork(nw)

\* design and offdesign calls with no, one and MaxIterShort iterations, with
\* and without the previous results as starting values, initialisation only,
\* and an offdesign call without design_path
ShortCalls ==
    { Call(md, "design_case", it[1], it[2], FALSE, TRUE) :
        md \in Modes, it \in {<<0, 4>>, <<1, 0>>, <<MaxIterShort, 1>>} }
    \cup { Call("design", "none", MaxIterShort, 1, FALSE, FALSE),
           Call("design", "none", MaxIterShort, 1, TRUE, TRUE),
           Call("offdesign", "none", MaxIterShort, 1, FALSE, TRUE) }

SolveShort == Solve(ShortCalls)

PassShort == Pass({9, 20}, CoarseIncrements)

Next == SolveShort \/ PassShort \/ solve_tail

Spec == Init /\ [][Next]_vars

-----------------------------------------------------------------------------
(* Properties of the life cycle specification *)

\* the equations of the current parametrisation, counted property by property
EquationsOf(cs, cp, b) ==
    LET fixed == {<<c, n>> \in Conns \X PropNames : cs[c][n].val_set}
        refd == {<<c, n>> \in Conns \X {"m", "p", "h", "T"} : cs[c][n].ref_set}
        fracs == {<<c, f>> \in Conns \X (1..Len(fluids)) :
                    cs[c].fluid.val_set[f]}
        bal == {c \in Conns : cs[c].fluid.balance}
        opt == {v \in {"Q", "pr", "zeta"} : cp.is_set[v]}
        grp == B2N(\A e \in HydroElements : cp.is_set[e])
               + B2N(\A e \in EnergyElements : cp.is_set[e])
    IN  Card(fixed) + Card(refd) + Card(fracs) + Card(bal)
        + Len(fluids) + 1 + Card(opt) + grp
        + B2N(b.P.is_set)

\* the unknowns of the current network
UnknownsOf(cp) == (3 + Len(fluids)) * Card(Conns) + Card(cp.is_var)

\* C1: whenever solve() is inside or past its Newton loop, the stored counts
\* are those of the current fixed/free flags and the system is square; a call
\* that met an imbalance has raised TESPyNetworkError, has named the imbalance
\* that the current flags show, and has run no pass.
C1_SquareBeforeIterating ==
    /\ (pc \in {"loop", "tail"} \/ passes > 0) =>
          /\ num_comp_eq + num_conn_eq + num_bus_eq
                = EquationsOf(conns, comp, bus)
          /\ num_vars = UnknownsOf(comp)
          /\ num_comp_eq + num_conn_eq + num_bus_eq = num_vars
    /\ "too_many" \in log =>
          /\ raised = "TESPyNetworkError" /\ pc = "idle" /\ passes = 0
          /\ EquationsOf(conns, comp, bus) > UnknownsOf(comp)
    /\ "not_enough" \in log =>
          /\ raised = "TESPyNetworkError" /\ pc = "idle" /\ passes = 0
          /\ EquationsOf(conns, comp, bus) < UnknownsOf(comp)

\* an offdesign call after a design call found the switched flags to leave
\* the system underdetermined, and a later call iterates on a square system
C1_Witness ==
    /\ pc = "idle" /\ mode = "offdesign" /\ redesign
    /\ "not_enough" \in log /\ checked

\* C2: a pass whose matrix inversion fails changes no connection and no
\* component variable and ends the loop in that pass; solve() then reports the
\* singularity and returns without postprocessing.
C2_SingularNoStep ==
    [][ /\ (pc = "loop" /\ passes' = passes + 1 /\ lin_dep' = "true") =>
              /\ conns' = conns /\ comp' = comp
              /\ pc' = "tail" /\ exit' = "singular"
        /\ (pc = "tail" /\ exit = "singular") =>
              /\ "singular" \in log' /\ "postprocessing" \notin log'
              /\ "complete" \notin log'
              /\ conns' = conns /\ comp' = comp /\ bus' = bus
              /\ raised' = "none" /\ pc' = "idle" ]_vars

\* a solve ended by a singular second pass, after a first pass that moved the
\* free variables
C2_Witness ==
    /\ pc = "idle" /\ exit = "singular" /\ passes = 2
    /\ "singular" \in log
    /\ conns[2].m.val_SI # conns[2].m.val0

\* C3: the loop ends as converged only in a pass whose index is at least
\* min_iter and whose residual norm is below the threshold.
C3_ConvergedOnlyAfterMinIter ==
    exit = "converged" =>
        /\ iter >= min_iter
        /\ res[Len(res)] < ConvTol
        /\ passes = iter + 1

\* converged in the second pass although the norm of the first pass was
\* already below the threshold
C3_Witness ==
    /\ exit = "converged" /\ min_iter = 1 /\ iter = 1
    /\ res[1] < ConvTol

\* C4 as claimed: a solve whose loop ended by stagnation or by exhausting the
\* iteration cap does not log 'Calculation complete.' and keeps the mass flow,
\* pressure and enthalpy of the last pass.
C4_NoCompletionWithoutConvergence ==
    [][ (pc = "tail" /\ exit \in {"stalled", "exhausted"}) =>
            /\ "complete" \notin log'
            /\ \A c \in Conns : \A n \in {"m", "p", "h"} :
                  conns'[c][n].val_SI = conns[c][n].val_SI ]_vars

\* C5 as claimed, for a solve that ran at least one pass: the iteration cap
\* warning is logged if and only if max_iter passes were run and none of them
\* detected convergence, stagnation or a singularity.
C5_CapWarningIffExhausted ==
    [][ (pc = "tail" /\ passes > 0) =>
            (("max_iter" \in log') <=>
                (passes = max_iter
                 /\ exit \notin {"converged", "stalled", "singular"})) ]_vars

-----------------------------------------------------------------------------
(* Long loop specification: one network solved with an iteration cap beyond *)
(* the stagnation test's first iteration                                    *)

\* max_iter of the long loop specification
MaxIterLong == 44

\* a minimum iteration count below and one above the first iteration of the
\* stagnation test
LongCalls ==
    { Call("design", "none", MaxIterLong, minit, FALSE, TRUE) :
        minit \in {4, StallIter + 3} }

InitLong ==
    InitNetwork([nf |-> 1,
                 conns |-> <<Feed(1, 2, 16, 3 * HDen, Pure(1)), Connection(1)>>,
                 comp |-> Trough({"pr", "Q"}, {"pr"}, {"zeta"}, {}),
                 ports |-> Layout, bus |-> Bus(FALSE)])

SolveLong == Solve(LongCalls)

PassLong == Pass(ResVals, {Increment(0, 0, 0, 0, 0)})

NextLong == SolveLong \/ PassLong \/ solve_tail

SpecLong == InitLong /\ [][NextLong]_vars

\* the last four norms are all at least 0.95 times the third last, and the
\* last is at least 0.95 times the second last
StagnantWindow(rs) ==
    /\ Len(rs) >= ResWindow
    /\ \A i \in 1..Len(rs) :
          i > Len(rs) - ResWindow => 100 * rs[i] >= 95 * rs[Len(rs) - 2]
    /\ 100 * rs[Len(rs)] >= 95 * rs[Len(rs) - 1]

\* a pass of the loop that was neither singular nor converged
OrdinaryPass ==
    /\ pc = "loop" /\ passes' = passes + 1 /\ raised' = "none"
    /\ exit' \notin {"converged", "singular"}

\* C6 as claimed: in every pass that has a full window of four norms, a
\* window without an improvement of more than 5 % ends the loop as stalled
\* with progress = False.
C6_StalledWheneverWindowFull ==
    [][ (OrdinaryPass /\ StagnantWindow(res')) =>
            (exit' = "stalled" /\ progress' = FALSE) ]_vars

\* C6, amended: the window is tested only in passes with iter > 40.  In such
\* a pass that is neither singular nor converged, the loop ends as stalled
\* with progress = False exactly if the window shows no improvement of more
\* than 5 %; no pass with iter <= 40 ends as stalled; and solve() then runs
\* postprocessing, logs the progress warning, does not log completion and
\* raises nothing.
C6_StalledAfterStallIter ==
    [][ /\ OrdinaryPass =>
              /\ (exit' = "stalled") <=>
                    (iter' > StallIter /\ StagnantWindow(res'))
              /\ (exit' = "stalled") => (progress' = FALSE /\ pc' = "tail")
              /\ (exit' # "stalled") => progress' = progress
        /\ (pc = "tail" /\ exit = "stalled") =>
              /\ "no_progress" \in log' /\ "postprocessing" \in log'
              /\ "complete" \notin log'
              /\ raised' = "none" /\ pc' = "idle" ]_vars

\* a solve that stalled in pass 41 with norms below the threshold, before
\* min_iter, and has logged the warning
C6_Witness ==
    /\ pc = "idle" /\ exit = "stalled" /\ iter = StallIter + 1
    /\ iter < min_iter /\ res[Len(res)] < ConvTol
    /\ "no_progress" \in log /\ ~progress

-----------------------------------------------------------------------------
(* Step specification: networks whose fixed values lie outside the value    *)
(* ranges, stepped with increments that push the free values out of them    *)

\* max_iter of the step specification
MaxIterStep == 5

\* an equal mixture of two fluids
Mixed == [f \in 1..2 |-> FracOne \div 2]

\* single fluid, fixed feed outside the mass flow and enthalpy ranges, free
\* outlet with a dew line offset; single fluid, free feed, fixed outlet with a
\* pressure the fluid's back end rejects; mixture, fixed feed outside the
\* generic ranges, free outlet with a temperature; mixture, feed with fixed
\* mass fractions within err of 1 and 0
StepNetworks ==
    { [nf |-> 1,
       conns |-> <<Feed(1, 8, 16, 8 * HDen, Pure(1)),
                   [Connection(1) EXCEPT !.Td_bp = Prop(5, TRUE)]>>,
       comp |-> Trough({"Q"}, {}, {}, {}),
       ports |-> Layout, bus |-> Bus(FALSE)],
      [nf |-> 1,
       conns |-> <<Connection(1), Feed(1, -8, 1, HDen \div 2, Pure(1))>>,
       comp |-> Trough({"pr", "Q"}, {}, {}, {}),
       ports |-> Layout, bus |-> Bus(FALSE)],
      [nf |-> 2,
       conns |-> <<Feed(2, 8, 2, 8 * HDen, Mixed),
                   [Connection(2) EXCEPT !.T = Prop(400, TRUE),
                                         !.fluid.val = Mixed]>>,
       comp |-> Trough({"Q"}, {}, {}, {}),
       ports |-> Layout, bus |-> Bus(FALSE)],
      [nf |-> 2,
       conns |-> <<Feed(2, 2, 16, 3 * HDen,
                        [f \in 1..2 |-> IF f = 1 THEN FracOne - 1 ELSE 1]),
                   [Connection(2) EXCEPT !.fluid.val = Mixed]>>,
       comp |-> Trough({"pr", "Q"}, {}, {}, {}),
       ports |-> Layout, bus |-> Bus(FALSE)] }

InitStep == \E nw \in StepNetworks : InitNetwork(nw)

\* increments that leave the ranges downwards and upwards
StepIncrements ==
    { Increment(m, p, h, x, 0) :
        m \in {-16, 1}, p \in {-100, 100}, h \in {-8 * HDen, HDen},
        x \in {-FracOne, 0} }

\* the first call of solve() on the network
StepCalls == { Call("design", "none", MaxIterStep, 0, FALSE, FALSE) }

\* a second call with a single iteration, with and without the results of the
\* first as starting values
RestartCalls ==
    { Call("design", "none", 1, 0, FALSE, ip) : ip \in BOOLEAN }

SolveStep == ~checked /\ Solve(StepCalls)

ResolveStep == checked /\ max_iter = MaxIterStep /\ Solve(RestartCalls)

PassStep == Pass({20}, StepIncrements)

NextStep == SolveStep \/ ResolveStep \/ PassStep \/ solve_tail

SpecStep == InitStep /\ [][NextStep]_vars

\* a pass of the loop
AnyPass == pc = "loop" /\ passes' = passes + 1

\* C7: no pass of the loop, whether it finishes, is singular or is left by a
\* ValueError, changes the SI value of a mass flow, pressure or enthalpy whose
\* val_set flag is set.
C7_FixedPropertiesKept ==
    [][ AnyPass =>
            \A c \in Conns : \A n \in {"m", "p", "h"} :
                conns[c][n].val_set =>
                    conns'[c][n].val_SI = conns[c][n].val_SI ]_vars

\* after a non-singular pass a mixture's fixed mass flow, pressure and
\* enthalpy are outside the generic ranges while the free mass flow of the
\* other connection was set to the range's limit
C7_Witness ==
    /\ passes > 0 /\ lin_dep = "false" /\ range_checked = Conns
    /\ single_fluid(conns[1].fluid.val) = 0
    /\ conns[1].m.val_set /\ conns[1].m.val_SI > m_range_SI[2]
    /\ conns[1].p.val_set /\ conns[1].p.val_SI < p_range_SI[1]
    /\ conns[1].h.val_set /\ conns[1].h.val_SI > h_range_SI[2]
    /\ ~conns[2].m.val_set /\ conns[2].m.val_SI = m_range_SI[2]

\* C8 as claimed: in a network with more than one fluid no pass of the loop
\* changes a mass fraction whose val_set flag is set.
C8_FixedFractionsKept ==
    [][ (AnyPass /\ Len(fluids) > 1) =>
            \A c \in Conns : \A f \in 1..Len(fluids) :
                conns[c].fluid.val_set[f] =>
                    conns'[c].fluid.val[f] = conns[c].fluid.val[f] ]_vars

\* the free pressure of connection c is inside the interval r
FreeWithin(c0, n, r) ==
    c0[n].val_set \/ (r[1] <= c0[n].val_SI /\ c0[n].val_SI <= r[2])

\* C10 as claimed: after every non-singular pass that finished, every free
\* mass flow is inside m_range_SI and every free pressure inside p_range_SI.
C10_FreeValuesInGlobalRanges ==
    [][ (AnyPass /\ lin_dep' = "false" /\ raised' = "none") =>
            \A c \in Conns :
                /\ FreeWithin(conns'[c], "m", m_range_SI)
                /\ FreeWithin(conns'[c], "p", p_range_SI) ]_vars

\* C10, amended: after every non-singular pass, for every connection whose
\* range check returned, a free mass flow is inside m_range_SI; a free
\* pressure is inside the fluid's own pressure range if the connection holds
\* a single fluid, and inside p_range_SI if it holds a mixture, the pass is
\* one of the first four and the connection has no good starting values.
C10_FreeValuesInCheckedRanges ==
    [][ (AnyPass /\ lin_dep' = "false") =>
            \A c \in range_checked' :
                LET c1 == conns'[c]
                    fl == IF \E f \in DOMAIN c1.fluid.val :
                                c1.fluid.val[f] = FracOne
                          THEN CHOOSE f \in DOMAIN c1.fluid.val :
                                c1.fluid.val[f] = FracOne
                          ELSE 0
                IN  /\ FreeWithin(c1, "m", m_range_SI)
                    /\ fl # 0 => FreeWithin(c1, "p", value_range[fl])
                    /\ (fl = 0 /\ iter' < GenericCheckIter
                          /\ ~c1.good_starting_values) =>
                            FreeWithin(c1, "p", p_range_SI) ]_vars

\* in the fifth pass a mixture's free pressure is above p_range_SI while its
\* free mass flow is at the limit of m_range_SI
C10_Witness ==
    /\ passes = GenericCheckIter + 1 /\ lin_dep = "false"
    /\ range_checked = Conns
    /\ single_fluid(conns[2].fluid.val) = 0
    /\ ~conns[2].p.val_set /\ conns[2].p.val_SI > p_range_SI[2]
    /\ ~conns[2].m.val_set /\ conns[2].m.val_SI = m_range_SI[1]

-----------------------------------------------------------------------------
(* Pressure update specification: the damped update of solve_control on its *)
(* own, for every positive pressure and every increment of a bounded grid   *)

\* largest pressure before the step
MaxP == 12

\* largest absolute increment
MaxD == 40

InitRelax ==
    /\ InitObjects([nf |-> 1,
                    conns |-> <<Feed(1, 2, 16, 3 * HDen, Pure(1)),
                                Connection(1)>>,
                    comp |-> Trough({"pr", "Q"}, {}, {}, {}),
                    ports |-> Layout, bus |-> Bus(FALSE)])
    /\ arg \in (1..MaxP) \X (-MaxD..MaxD)
    /\ out = <<>>

\* c.p.val_SI += increment / relax, applied to the pressure arg[1] and the
\* increment arg[2]
pressure_update ==
    /\ out = <<>>
    /\ out' = damped_pressure(arg[1], arg[2])
    /\ UNCHANGED <<pc, fluids, index, mode, design_path, redesign, checked, conns,
                   comp, bus,
                   num_bus_eq, num_comp_eq, num_conn_eq, num_comp_vars,
                   num_vars, max_iter, min_iter, iter, passes, res,
                   range_checked, lin_dep, progress, exit, log, raised, arg>>

NextRelax == pressure_update

SpecRelax == InitRelax /\ [][NextRelax]_vars

\* C9: the damped update of a positive pressure is strictly positive for every
\* increment: the result, a fraction with numerator out[1] and denominator
\* out[2], has both positive.
C9_DampedPressurePositive ==
    out # <<>> => (out[1] > 0 /\ out[2] > 0)

\* the update was applied to an increment that is at least as large as the
\* pressure and negative, and was damped to half the pressure
C9_Witness ==
    /\ out # <<>> /\ arg[2] <= -arg[1]
    /\ 2 * out[1] = arg[1] * out[2]

-----------------------------------------------------------------------------
(* Properties of the step specification: composition *)

\* C11: in a network with more than one fluid, after every non-singular pass
\* every mass fraction of every connection is at least 0 and at most 1.
C11_FractionsWithinUnitInterval ==
    [][ (AnyPass /\ lin_dep' = "false" /\ Len(fluids) > 1) =>
            \A c \in Conns : \A f \in 1..Len(fluids) :
                /\ 0 <= conns'[c].fluid.val[f]
                /\ conns'[c].fluid.val[f] <= FracOne ]_vars

\* after a non-singular pass the free fractions of an equal mixture, stepped
\* by -1 and +1, stand at 0 and 1
C11_Witness ==
    /\ passes = 1 /\ lin_dep = "false" /\ Len(fluids) = 2
    /\ ~conns[2].fluid.val_set[1] /\ ~conns[2].fluid.val_set[2]
    /\ conns[2].fluid.val[1] = 0 /\ conns[2].fluid.val[2] = FracOne

\* C12: a ValueError raised by the property evaluator while a connection's
\* properties are range-checked never ends solve(): no solve() call is left
\* with a ValueError.
C12_ValueErrorNeverLeavesSolve ==
    ~(raised = "ValueError" /\ pc = "idle" /\ exit = "raised")

-----------------------------------------------------------------------------
(* Configuration specification: solve() on plants whose ports or fluids are *)
(* not set up properly, and on a sound plant                                *)

\* a connection that holds a fluid next to the single fluid of the network
Foreign(c0) ==
    [c0 EXCEPT !.fluid.val = <<FracOne, 0>>,
               !.fluid.val_set = <<c0.fluid.val_set[1], FALSE>>]

\* the plants. Port lists: sound; one outlet used twice; one inlet used
\* twice; both; a second outlet of the source in place of the outlet of the
\* trough. Connection lists: sound; a foreign fluid in the second connection;
\* a foreign fluid in both. Troughs: no group; a hydro group with D missing;
\* a complete hydro group whose D is unset in offdesign mode
ConfigNetworks ==
    LET ports ==
          { Layout,
            <<Port("source", "out1", "trough", "in1"),
              Port("source", "out1", "sink", "in1")>>,
            <<Port("source", "out1", "sink", "in1"),
              Port("trough", "out1", "sink", "in1")>>,
            <<Port("source", "out1", "sink", "in1"),
              Port("source", "out1", "sink", "in1")>>,
            <<Port("source", "out1", "trough", "in1"),
              Port("source", "out2", "sink", "in1")>> }
        feed == Feed(1, 2, 16, 3 * HDen, Pure(1))
        lists ==
          { <<feed, Connection(1)>>,
            <<feed, Foreign(Connection(1))>>,
            <<Foreign(feed), Foreign(Connection(1))>> }
        troughs ==
          { Trough({"pr", "Q"}, {"pr"}, {"zeta"}, {}),
            Trough({"pr", "Q", "L", "ks"}, {}, {}, {}),
            Trough({"Q", "L", "ks", "D"}, {"D"}, {"pr"}, {}) }
    IN  { [nf |-> 1, conns |-> cs, comp |-> cp, ports |-> ps,
           bus |-> Bus(FALSE)] :
             cs \in lists, ps \in ports, cp \in troughs }

InitConfig == \E nw \in ConfigNetworks : InitNetwork(nw)

\* calls in both modes, with and without design_path
ConfigCalls ==
    { Call(md, dp, MaxIterShort, 0, FALSE, ip) :
        md \in Modes, dp \in {"none", "design_case"}, ip \in BOOLEAN }

NextConfig ==
    \/ Solve(ConfigCalls)
    \/ Pass(ResVals, CoarseIncrements)
    \/ solve_tail
SpecConfig == InitConfig /\ [][NextConfig]_vars

\* the configuration defects the next solve() call meets
Defects ==
    (IF \E a, b \in Conns :
           /\ a < b /\ conns[a].source = conns[b].source
           /\ conns[a].source_id = conns[b].source_id
     THEN {"source"} ELSE {})
    \cup
    (IF \E a, b \in Conns :
           /\ a < b /\ conns[a].target = conns[b].target
           /\ conns[a].target_id = conns[b].target_id
     THEN {"target"} ELSE {})
    \cup
    (IF \E c \in Conns : \E f \in DOMAIN conns[c].fluid.val :
           \A i \in DOMAIN fluids : fluids[i] # f
     THEN {"fluid"} ELSE {})
    \cup
    (IF mode' = "offdesign" /\ design_path' = "none"
     THEN {"design_path"} ELSE {})

\* C13: a solve() call on a network in which an outlet or an inlet is used by
\* more than one connection, or a connection holds a fluid that is not in the
\* network's fluid list, or a call in offdesign mode without design_path,
\* raises TESPyNetworkError with the message of one of these defects (or, if
\* no port is used twice, the message of a component with a missing
\* connection), and no pass of the loop is run.
C13_ConfigurationErrorsRaise ==
    [][ (pc = "idle" /\ Defects # {}) =>
            /\ raised' = "TESPyNetworkError"
            /\ \/ \E d \in Defects : log' = {d}
               \/ /\ Defects \cap {"source", "target"} = {}
                  /\ log' \in {{"outgoing"}, {"incoming"}}
            /\ pc' = "idle" /\ passes' = 0 /\ iter' = 0 ]_vars

C13_Witness ==
    /\ raised = "TESPyNetworkError" /\ log = {"target"}
    /\ pc = "idle" /\ passes = 0 /\ ~checked
    /\ conns[1].target = conns[2].target
    /\ conns[1].source # conns[2].source

\* the hydro group or the energy group of a trough is specified in part
PartialGroup(cp) ==
    \E G \in {HydroElements, EnergyElements} :
        /\ \E e \in G : cp.is_set[e]
        /\ \E e \in G : ~cp.is_set[e]

\* C14: a solve() call on a plant whose ParabolicTrough has a parameter group
\* that is specified in part ends with a TESPyNetworkError before solving.
C14_PartialGroupIsFatal ==
    [][ (pc = "idle" /\ PartialGroup(comp) /\ PartialGroup(comp')) =>
            (raised' = "TESPyNetworkError" /\ pc' = "idle") ]_vars

-----------------------------------------------------------------------------
(* Row specification: the connection rows of plants with a referenced       *)
(* pressure and with a fluid balance; the norm and the increment of a pass  *)
(* agree with the rows solve_connections wrote                              *)

\* largest max_iter of the row specification
MaxIterRef == 4

\* the plants: the outlet pressure references the inlet pressure (fixed at
\* 10) with factor 2 and offset 0; the same with the outlet pressure in the
\* offdesign list; the first one with two fluids and the fluid balance on
\* the outlet connection; and with the fluid balance on the inlet connection
RefNetworks ==
    LET feed == Feed(1, 2, 10, 3 * HDen, Pure(1))
        feed2 == Feed(2, 2, 10, 3 * HDen, Pure(2))
        outlet == [Connection(1) EXCEPT !.p = Ref(16, 1, 2, 0)]
        outlet2 == [Connection(2) EXCEPT !.p = Ref(16, 1, 2, 0)]
    IN  { [nf |-> 1, conns |-> <<feed, outlet>>,
           comp |-> Trough({"Q"}, {}, {}, {}),
           ports |-> Layout, bus |-> Bus(FALSE)],
          [nf |-> 1,
           conns |-> <<feed, [outlet EXCEPT !.offdesign = {"p"}]>>,
           comp |-> Trough({"Q"}, {"Q"}, {}, {}),
           ports |-> Layout, bus |-> Bus(FALSE)],
          [nf |-> 2,
           conns |-> <<feed2, [outlet2 EXCEPT !.fluid.balance = TRUE]>>,
           comp |-> Trough({}, {}, {}, {}),
           ports |-> Layout, bus |-> Bus(FALSE)],
          [nf |-> 2,
           conns |-> <<[feed2 EXCEPT !.fluid.balance = TRUE,
                                     !.fluid.val = <<3 * (FracOne \div 4), 0>>,
                                     !.fluid.val_set = <<TRUE, FALSE>>],
                       outlet2>>,
           comp |-> Trough({"Q"}, {}, {}, {}),
           ports |-> Layout, bus |-> Bus(FALSE)] }

InitRef == \E nw \in RefNetworks : InitNetwork(nw)

\* design calls with and without init_path, and offdesign calls
RefCalls ==
    { [Call(md, "design_case", MaxIterRef, 0, FALSE, TRUE)
         EXCEPT !.init_path = ip] :
        md \in Modes, ip \in {"none", "init_case"} }

\* increments of the outlet connection, and of the second mass fraction of
\* the inlet connection
RefIncrements ==
    { [conn |-> <<[m |-> 0, p |-> 0, h |-> 0, fluid |-> <<0, x>>],
                  [m |-> 0, p |-> dp, h |-> 0, fluid |-> <<0, 0>>]>>,
       var |-> 0] :
        dp \in {-44, -12, 0, 4}, x \in {0, FracOne \div 4} }

\* entry j of the increment vector: connection j \div (nf + 3), then m, p, h
\* and the mass fractions
increment_at(inc, j, nf) ==
    LET c == inc.conn[j \div (nf + 3) + 1]
        k == j % (nf + 3)
    IN  IF k = 0 THEN c.m ELSE IF k = 1 THEN c.p ELSE IF k = 2 THEN c.h
        ELSE c.fluid[k - 2]

\* the product of the columns 0..j of a row of the Jacobian and the increment
RECURSIVE dot(_, _, _, _)
dot(jac, inc, nf, j) ==
    IF j < 0 THEN 0
    ELSE jac[j] * increment_at(inc, j, nf) + dot(jac, inc, nf, j - 1)

\* matrix_inversion, increment = inv(jacobian).dot(-residual), row by row
\* for the rows of solve_connections that carry their entries: the product
\* of the row and the increment is minus the residual of the row
solves_rows(cs, inc, nf) ==
    LET rows == solve_connections(cs, 0, nf)
        last == (nf + 3) * Card(Conns) - 1
    IN  \A i \in DOMAIN rows :
            rows[i].kind # "evaluated" =>
                dot(rows[i].jac, inc, nf, last) = -rows[i].res

\* norm(self.residual) is at least the residual of every row, and every
\* residual that is not zero is a whole step of the grid
norm_of_rows(cs, r, nf) ==
    LET rows == solve_connections(cs, 0, nf)
    IN  r < ConvTol =>
            \A i \in DOMAIN rows :
                rows[i].kind # "evaluated" => rows[i].res = 0

PassRef ==
    \E r \in ResVals, singular \in BOOLEAN, inc \in RefIncrements :
        /\ norm_of_rows(conns, r, Len(fluids))
        /\ ~singular => solves_rows(conns, inc, Len(fluids))
        /\ solve_loop_pass(r, singular, inc)

\* a first call in either mode, and an offdesign call after a design call
SolveRef ==
    /\ ~checked \/ mode = "design"
    /\ \E k \in RefCalls :
          /\ checked => k.mode = "offdesign"
          /\ Solve({k})

NextRef == SolveRef \/ PassRef \/ solve_tail
SpecRef == InitRef /\ [][NextRef]_vars

\* C15: in every solve, for every property of every connection at most one
\* of {fixed value, reference} is active, solve_connections writes one row
\* for the property if it is fixed or referenced and none if it is free, and
\* the number of rows written equals num_conn_eq.
C15_OneRowPerProperty ==
    pc = "loop" =>
        LET rows == solve_connections(conns, 0, Len(fluids))
        IN  /\ \A c \in Conns : \A n \in PropNames :
                 /\ ~(conns[c][n].val_set /\ conns[c][n].ref_set)
                 /\ Card({i \in DOMAIN rows :
                            rows[i].conn = c /\ rows[i].prop = n})
                      = IF conns[c][n].val_set \/ conns[c][n].ref_set
                        THEN 1 ELSE 0
            /\ Len(rows) = num_conn_eq

\* the offset of a primary variable in the columns of a connection
Offset(n) == IF n = "m" THEN 0 ELSE IF n = "p" THEN 1 ELSE 2

C17_BalanceRow ==
    LET nf == Len(fluids)
        rows == solve_connections(conns, passes, nf)
    IN  pc = "loop" =>
            \A c \in Conns :
                conns[c].fluid.balance =>
                    \E i \in DOMAIN rows :
                        /\ rows[i].kind = "balance" /\ rows[i].conn = c
                        /\ rows[i].res = FracOne - Sum(conns[c].fluid.val)
                        /\ \A j \in DOMAIN rows[i].jac :
                               rows[i].jac[j] =
                                   IF \E f \in 0..(nf - 1) :
                                          j = (c - 1) * (nf + 3) + 3 + f
                                   THEN -1 ELSE 0

-----------------------------------------------------------------------------
(* Bus specification: the row solve_busses writes for a bus over two        *)
(* HeatExchangers in series on their hot side                               *)
(*   1: source -> A.in1    2: source -> A.in2    3: A.out1 -> B.in1         *)
(*   4: A.out2 -> sink     5: source -> B.in2    6: B.out1 -> sink          *)
(*   7: B.out2 -> sink                                                      *)

\* comp.conn_loc, the positions of inl + outl in Network.conns.index
conn_loc == [A |-> <<0, 1, 2, 3>>, B |-> <<2, 4, 5, 6>>]

\* HeatExchanger.bus_func: i[0] * (o[2] - i[2]) of inl[0] and outl[0]
hx_bus_func(cp, a) ==
    LET i == conn_loc[cp][1] + 1
        o == conn_loc[cp][3] + 1
    IN  a.m[i] * (a.h[o] - a.h[i])

\* Component.calc_bus_value for a bus with the characteristic line 1
calc_bus_value(cp, a) == hx_bus_func(cp, a)

\* HeatExchanger.bus_deriv: deriv[0, j, k] for the position j in inl + outl
\* and the variable k; numeric_deriv of calc_bus_value for m and h of inl[0]
\* and for h of outl[0]
bus_deriv(cp, a) ==
    LET i == conn_loc[cp][1] + 1
        o == conn_loc[cp][3] + 1
    IN  [j \in 0..3 |->
           [k \in 0..3 |->
              IF j = 0 /\ k = 0 THEN a.h[o] - a.h[i]
              ELSE IF j = 0 /\ k = 2 THEN a.m[i]
                                          * ((a.h[o] - (a.h[i] + 1))
                                             - (a.h[o] - a.h[i]))
              ELSE IF j = 2 /\ k = 2 THEN a.m[i]
                                          * (((a.h[o] + 1) - a.h[i])
                                             - (a.h[o] - a.h[i]))
              ELSE 0]]

\* Network.solve_busses for one bus with P.is_set: the row index, the
\* residual and the Jacobian entries by column. Every component of the bus,
\* in the order of bus.comps, assigns the block of each of its connections
solve_busses(a) ==
    LET ncv == 4
        value(n) == IF n \in DOMAIN a.comps
                    THEN calc_bus_value(a.comps[n], a) ELSE 0
        writers(loc) ==
            {n \in DOMAIN a.comps :
               \E j \in 1..4 : conn_loc[a.comps[n]][j] = loc}
        last(loc) == CHOOSE n \in writers(loc) :
                         \A k \in writers(loc) : k <= n
        at(cp, loc) == CHOOSE j \in 1..4 : conn_loc[cp][j] = loc
    IN  [row |-> a.num_comp_eq + a.num_conn_eq,
         res |-> a.P + (0 - value(1) - value(2)),
         jac |-> [col \in 0..(ncv * 7 - 1) |->
                    LET loc == col \div ncv
                    IN  IF writers(loc) = {} THEN 0
                        ELSE LET cp == a.comps[last(loc)]
                             IN  -bus_deriv(cp, a)[at(cp, loc) - 1][col % ncv]]]

\* HeatExchanger.comp_init: the number of equations of a heat exchanger with
\* the parameters a.is_set set, in a network of a.nf fluids
HeatExchanger_comp_init(a) ==
    a.nf * 2 + 3
      + Cardinality({v \in {"Q", "kA", "kA_char", "ttd_u", "ttd_l", "pr1",
                            "pr2", "zeta1", "zeta2"} : v \in a.is_set})

\* HeatExchanger.equations: the rows of the residual vector the call writes,
\* in the order of the code; the row counter k moves on by one for every
\* parameter that is set. The functions of kA, kA_char, zeta1 and zeta2 are
\* evaluated if the residual the row holds from the call before exceeds
\* err ** 2, or in every fourth call, or with always_all_equations
HeatExchanger_equations(a) ==
    LET order == <<"Q", "kA", "kA_char", "ttd_u", "ttd_l", "pr1", "pr2",
                   "zeta1", "zeta2">>
        row(j) == a.nf * 2 + 3
                    + Cardinality({i \in 1..(j - 1) : order[i] \in a.is_set})
        stale == (IF a.residual < 0 THEN -a.residual ELSE a.residual)
                    > err * err
                 \/ a.it % 4 = 0
                 \/ a.always_all_equations
    IN  { [row |-> k,
           eq |-> IF k < a.nf * 2 THEN "fluid"
                  ELSE IF k < a.nf * 2 + 2 THEN "mass_flow" ELSE "energy",
           evaluated |-> TRUE] : k \in 0..(a.nf * 2 + 2) }
        \cup
        { [row |-> row(j), eq |-> order[j],
           evaluated |-> IF order[j] \in {"kA", "kA_char", "zeta1", "zeta2"}
                         THEN stale ELSE TRUE] :
            j \in {i \in 1..Len(order) : order[i] \in a.is_set} }

\* the derivatives with the rows of the two pressure ratios in the other
\* order
HeatExchanger_derivatives_pr2_first(a) ==
    LET order == <<"Q", "kA", "kA_char", "ttd_u", "ttd_l", "pr2", "pr1",
                   "zeta1", "zeta2">>
        row(j) == a.nf * 2 + 3
                    + Cardinality({i \in 1..(j - 1) : order[i] \in a.is_set})
        ph(I) == I \X {1, 2}
        numeric == [Q |-> {}, kA |-> ph(0..3),
                    kA_char |-> {<<0, 0>>, <<1, 0>>} \cup ph(0..3),
                    ttd_u |-> ph({0, 3}), ttd_l |-> ph({1, 2}),
                    pr1 |-> {}, pr2 |-> {},
                    zeta1 |-> {<<0, 0>>} \cup ph({0, 2}),
                    zeta2 |-> {<<1, 0>>} \cup ph({1, 3})]
    IN  { [row |-> a.nf * 2 + 2, eq |-> "energy", evaluated |-> {}] }
        \cup
        { [row |-> row(j), eq |-> order[j],
           evaluated |-> {c \in numeric[order[j]] : ~a.increment_filter[c]}] :
            j \in {i \in 1..Len(order) : order[i] \in a.is_set} }

\* HeatExchanger.derivatives: the rows of the Jacobian the call writes (the
\* rows of the fluid and the mass flow balance are static), and for every
\* row the entries <<connection, variable>> evaluated by numeric_deriv:
\* those whose increment is not filtered
HeatExchanger_derivatives(a) ==
    LET order == <<"Q", "kA", "kA_char", "ttd_u", "ttd_l", "pr1", "pr2",
                   "zeta1", "zeta2">>
        row(j) == a.nf * 2 + 3
                    + Cardinality({i \in 1..(j - 1) : order[i] \in a.is_set})
        ph(I) == I \X {1, 2}
        numeric == [Q |-> {}, kA |-> ph(0..3),
                    kA_char |-> {<<0, 0>>, <<1, 0>>} \cup ph(0..3),
                    ttd_u |-> ph({0, 3}), ttd_l |-> ph({1, 2}),
                    pr1 |-> {}, pr2 |-> {},
                    zeta1 |-> {<<0, 0>>} \cup ph({0, 2}),
                    zeta2 |-> {<<1, 0>>} \cup ph({1, 3})]
    IN  { [row |-> a.nf * 2 + 2, eq |-> "energy", evaluated |-> {}] }
        \cup
        { [row |-> row(j), eq |-> order[j],
           evaluated |-> {c \in numeric[order[j]] : ~a.increment_filter[c]}] :
            j \in {i \in 1..Len(order) : order[i] \in a.is_set} }

\* HeatExchanger.kA_func for the temperatures a.T (in 1 / 100 K) at the
\* inlets and outlets: the temperatures after the value manipulation, and
\* the logarithmic mean of the differences upper = T_o1 - T_i2 and
\* lower = T_i1 - T_o2, (upper - lower) / log(upper / lower): the logarithm
\* is not a number for a negative ratio and zero for the ratio one
kA_func(a) ==
    LET T_i1 == IF a.T.i1 <= a.T.o2 THEN a.T.o2 + 1 ELSE a.T.i1
        T_o2 == IF T_i1 <= a.T.o2 THEN T_i1 - 1 ELSE a.T.o2
        T_o1 == IF T_i1 <= T_o2 THEN a.T.i2 + 2 ELSE a.T.o1
        T_i2 == IF T_o1 <= a.T.i2 THEN T_o1 - 2 ELSE a.T.i2
        upper == T_o1 - T_i2
        lower == T_i1 - T_o2
    IN  [T |-> [i1 |-> T_i1, i2 |-> T_i2, o1 |-> T_o1, o2 |-> T_o2],
         td_log |-> IF lower = 0 THEN "ZeroDivisionError"
                    ELSE IF upper = 0 THEN "zero"
                    ELSE IF (upper < 0) # (lower < 0) THEN "nan"
                    ELSE IF upper = lower THEN "nan"
                    ELSE "finite"]

\* HeatExchanger.kA_char_func: the same value manipulation and logarithmic
\* mean, times the factor of the characteristic lines
kA_char_func(a) ==
    LET T_i1 == IF a.T.i1 <= a.T.o2 THEN a.T.o2 + 1 ELSE a.T.i1
        T_o2 == IF T_i1 <= a.T.o2 THEN T_i1 - 1 ELSE a.T.o2
        T_o1 == IF T_i1 <= T_o2 THEN a.T.i2 + 2 ELSE a.T.o1
        T_i2 == IF T_o1 <= a.T.i2 THEN T_o1 - 2 ELSE a.T.i2
        upper == T_o1 - T_i2
        lower == T_i1 - T_o2
    IN  [T |-> [i1 |-> T_i1, i2 |-> T_i2, o1 |-> T_o1, o2 |-> T_o2],
         td_log |-> IF lower = 0 THEN "ZeroDivisionError"
                    ELSE IF upper = 0 THEN "zero"
                    ELSE IF (upper < 0) # (lower < 0) THEN "nan"
                    ELSE IF upper = lower THEN "nan"
                    ELSE "finite"]

\* the inputs: mass flow and enthalpy of the hot side, and every assignment
\* of the two components to the bus
BusInputs ==
    { [m |-> <<m1, 1, m3, 1, 1, m3, 1>>,
       h |-> <<h1, 1, h3, 2, 1, 4, 2>>,
       P |-> 5, comps |-> cps, num_comp_eq |-> 10, num_conn_eq |-> 17] :
        m1 \in {1, 2}, m3 \in {1, 2}, h1 \in {1, 3}, h3 \in {2, 5},
        cps \in {<<"A">>, <<"B">>, <<"A", "B">>, <<"B", "A">>} }

InitBus ==
    /\ InitObjects([nf |-> 1,
                    conns |-> <<Feed(1, 2, 16, 3 * HDen, Pure(1)),
                                Connection(1)>>,
                    comp |-> Trough({"pr", "Q"}, {}, {}, {}),
                    ports |-> Layout, bus |-> Bus(TRUE)])
    /\ arg \in BusInputs
    /\ out = <<>>

\* solve_busses applied to the plant arg
bus_row ==
    /\ out = <<>>
    /\ out' = solve_busses(arg)
    /\ UNCHANGED <<pc, fluids, index, mode, design_path, redesign, checked, conns,
                   comp, bus, num_bus_eq, num_comp_eq, num_conn_eq,
                   num_comp_vars, num_vars, max_iter, min_iter, iter, passes,
                   res, range_checked, lin_dep, progress, exit, log, raised,
                   arg>>

SpecBus == InitBus /\ [][bus_row]_vars

\* C18: the row of a bus with a fixed target is placed after all component
\* and connection rows, its residual is the target minus the sum of the bus
\* values of the components of the bus, and its Jacobian entry for every
\* connection property is the derivative of that residual: the negated sum
\* of the derivatives of the bus values of all components of the bus.
C18_BusRow ==
    out # <<>> =>
        LET on(cp) == \E n \in DOMAIN arg.comps : arg.comps[n] = cp
            A == IF on("A") THEN 1 ELSE 0
            B == IF on("B") THEN 1 ELSE 0
            m == arg.m
            h == arg.h
            d == [col \in 0..27 |->
                    IF col = 0 THEN A * (h[3] - h[1])
                    ELSE IF col = 2 THEN -A * m[1]
                    ELSE IF col = 8 THEN B * (h[6] - h[3])
                    ELSE IF col = 10 THEN A * m[1] - B * m[3]
                    ELSE IF col = 22 THEN B * m[3]
                    ELSE 0]
        IN  /\ out.row = arg.num_comp_eq + arg.num_conn_eq
            /\ out.res = arg.P - (A * m[1] * (h[3] - h[1])
                                  + B * m[3] * (h[6] - h[3]))
            /\ \A col \in 0..27 : out.jac[col] = -d[col]

-----------------------------------------------------------------------------
\* Switching to offdesign mode (Network.init_offdesign), read under Spec

\* a step of solve() in offdesign mode that got as far as init_offdesign
SwitchedToOffdesign ==
    /\ pc = "idle" /\ mode' = "offdesign" /\ design_path' # "none"
    /\ log' \cap {"source", "target", "outgoing", "incoming", "fluid"} = {}

\* the properties of the offdesign list of every connection are fixed at
\* their design value, the parameters of the offdesign list of the component
\* are set, those of type dc_cp at their design value
OffdesignListsSet ==
    /\ \A c \in Conns : ~conns[c].local_design =>
          \A n \in conns[c].offdesign :
              /\ conns'[c][n].val_set
              /\ conns'[c][n].val_SI = conns'[c][n].design
              /\ conns'[c][n].design = DesignFile[c][n]
    /\ ~comp.local_design =>
          \A v \in comp.offdesign :
              /\ comp'.is_set[v]
              /\ v # "Tamb" => comp'.val[v] = comp'.design_val[v]

-----------------------------------------------------------------------------
\* Starting values of a calculation that follows another one, read under
\* SpecStep

\* the calls that keep the results of the previous calculation
KeepCalls ==
    { k \in RestartCalls \cup ShortCalls :
        k.init_previous /\ k.init_path = "none" }

\* solve() is called with init_previous and without init_path on a network
\* whose last calculation ran the postprocessing
SolveAfterPostprocessing ==
    pc = "idle" /\ "postprocessing" \in log /\ Solve(KeepCalls)

\* init_properties moves the enthalpy of connection c to the other side of
\* the saturation line
SaturationStart(c) ==
    LET c0 == conns[c]
        gas == (c0.Td_bp.val_SI > 0 /\ c0.Td_bp.val_set)
               \/ (c0.state.val = "g" /\ c0.state.is_set)
        liquid == ~gas /\ ((c0.Td_bp.val_SI < 0 /\ c0.Td_bp.val_set)
                           \/ (c0.state.val = "l" /\ c0.state.is_set))
    IN  \/ gas /\ c0.h.val_SI < h_mix_pQ(c0.p.val_SI, 1)
              /\ conns'[c].h.val_SI = Scale(h_mix_pQ(c0.p.val_SI, 1), 1001, 1000)
        \/ liquid /\ c0.h.val_SI > h_mix_pQ(c0.p.val_SI, 0)
              /\ conns'[c].h.val_SI = Scale(h_mix_pQ(c0.p.val_SI, 0), 999, 1000)

\* C20 as stated: a calculation with init_previous and without init_path that
\* follows a calculation with postprocessing starts every free mass flow,
\* pressure and enthalpy at the value of the end of that calculation
C20_StartsAtPreviousValues ==
    [][ SolveAfterPostprocessing =>
          \A c \in Conns : \A n \in {"m", "p", "h"} :
              ~conns'[c][n].val_set =>
                  conns'[c][n].val_SI = conns[c][n].val_SI ]_vars

\* C20, amended: the free mass flows and pressures start at the values of the
\* end of the previous calculation, and so do the free enthalpies, except on
\* a connection with a fixed Td_bp or a state whose enthalpy is on the wrong
\* side of the saturation line: there the enthalpy starts at 1.001 times the
\* enthalpy of saturated gas or 0.999 times the one of saturated liquid
C20_StartsAtPreviousOrSaturation ==
    [][ SolveAfterPostprocessing =>
          \A c \in Conns :
              /\ \A n \in {"m", "p"} :
                    ~conns'[c][n].val_set =>
                        conns'[c][n].val_SI = conns[c][n].val_SI
              /\ conns'[c].good_starting_values
              /\ ~conns'[c].h.val_set =>
                    \/ conns'[c].h.val_SI = conns[c].h.val_SI
                    \/ SaturationStart(c) ]_vars

\* the second calculation of the mixture with a temperature specification
\* starts from the results of the first: the free mass flow, pressure and
\* enthalpy of the outlet are the ones postprocessing stored, not the generic
\* starting values and not the enthalpy of the specified temperature
C20_Witness ==
    /\ pc = "loop" /\ passes = 0 /\ max_iter = 1 /\ checked
    /\ Len(fluids) = 2 /\ conns[2].T.val_set
    /\ conns[2].good_starting_values
    /\ \A n \in {"m", "p", "h"} :
          ~conns[2][n].val_set /\ conns[2][n].val_SI = conns[2][n].val0
    /\ conns[2].m.val_SI # 1
    /\ conns[2].h.val_SI # h_mix_pT(conns[2].p.val_SI, conns[2].T.val_SI)

-----------------------------------------------------------------------------
\* Postprocessing (Network.postprocessing with calc_parameters), read under
\* Spec

\* C21: postprocessing, calc_parameters included, leaves the solved state as
\* it is: the SI values of mass flow, pressure and enthalpy and the mass
\* fractions of every connection and the value of the variable of the
\* component are the same before and after it
C21_PostprocessingKeepsState ==
    [][ (pc = "tail" /\ "postprocessing" \in log') =>
          /\ \A c \in Conns :
                /\ \A n \in {"m", "p", "h"} :
                      conns'[c][n].val_SI = conns[c][n].val_SI
                /\ conns'[c].fluid.val = conns[c].fluid.val
          /\ comp.is_var # {} => comp'.var.val = comp.var.val ]_vars

-----------------------------------------------------------------------------
(* Pressure ratio specification: the Newton loop on a component with a     *)
(* specified pressure ratio, driven by the exact Newton increments of its   *)
(* rows                                                                     *)

\* iteration cap of the pressure ratio specification
MaxIterPr == 8

\* the pressure ratio row with inlet and outlet exchanged
pr_func_inverse(cp, cs) ==
    (cp.val["pr"] * cs[2].p.val_SI) \div HDen - cs[1].p.val_SI

\* HeatExchanger.equations, specified pressure ratio at the hot side:
\* pr1.val * inl[0].p.val_SI - outl[0].p.val_SI, pr on the grid of 1 / HDen
pr_func(cp, cs) ==
    (cp.val["pr"] * cs[1].p.val_SI) \div HDen - cs[2].p.val_SI

\* Component.mass_flow_func of one side: inlet mass flow - outlet mass flow
mass_flow_func(cs) == cs[1].m.val_SI - cs[2].m.val_SI

\* feed fixed at m = 5, p = 10 and an enthalpy, outlet with a fixed enthalpy, a
\* free mass flow and a free pressure that starts at p0; pr = 0.9. The
\* starting pressures are the ones whose damped steps are points of the
\* pressure grid.
InitPr ==
    \E p0 \in (1..18) \cup { k * p : k \in {2, 4, 8}, p \in 10..18 } :
        InitNetwork(
          [nf |-> 1,
           conns |-> <<Feed(1, 5, 10, 3 * HDen, Pure(1)),
                       [Connection(1) EXCEPT !.p = Prop(p0, FALSE),
                                             !.h = Prop(4 * HDen, TRUE)]>>,
           comp |-> [Trough({"pr"}, {}, {}, {})
                       EXCEPT !.val["pr"] = 9 * (HDen \div 10)],
           ports |-> Layout, bus |-> Bus(FALSE)])

\* one pass of the loop: the rows of the mass flow balance and of the pressure
\* ratio have the derivative -1 to the outlet's mass flow and pressure, all
\* the other unknowns are fixed, so the increment of matrix_inversion is the
\* residual of the row; the norm is below the threshold if and only if both
\* residuals are zero
PassPr ==
    LET rm == mass_flow_func(conns)
        rp == pr_func(comp, conns)
        none == [m |-> 0, p |-> 0, h |-> 0, fluid |-> <<0, 0>>]
    IN  solve_loop_pass(IF rm = 0 /\ rp = 0 THEN 0 ELSE 2 * ConvTol, FALSE,
                        [conn |-> <<none, [none EXCEPT !.m = rm, !.p = rp]>>,
                         var |-> 0])

\* one design calculation with the default min_iter
NextPr ==
    \/ ~checked /\ Solve({Call("design", "none", MaxIterPr, 4, FALSE, TRUE)})
    \/ PassPr
    \/ solve_tail

SpecPr == InitPr /\ [][NextPr]_vars

\* C22: with the inlet fixed at m = 5 and p = 10 and the pressure ratio 0.9
\* the loop, with the damped pressure update and min_iter, ends converged
\* within max_iter from every positive starting pressure, and the outlet then
\* has p = 9 and m = 5. Every pass adds one to the number of passes and the
\* loop is left after max_iter passes at the latest, so the loop ends if it
\* never stops at a pressure whose damped step is off the grid (first
\* conjunct); when it has ended, it has ended converged at p = 9 and m = 5
\* (second conjunct).
C22_PressureRatioConverges ==
    /\ pc = "loop" =>
          /\ passes < max_iter
          /\ OnGrid(conns[2].p.val_SI,
                    (comp.val["pr"] * conns[1].p.val_SI) \div HDen
                    - conns[2].p.val_SI)
    /\ (pc # "loop" /\ passes > 0) =>
          /\ exit = "converged" /\ passes <= max_iter
          /\ conns[2].p.val_SI = 9 /\ conns[2].m.val_SI = 5
          /\ pc = "idle" => "complete" \in log

\* a calculation ended converged at p = 9, m = 5 after the pressure was still
\* off in the pass before the last one: the step to 9 was damped
C22_Witness ==
    /\ pc = "idle" /\ exit = "converged" /\ "complete" \in log
    /\ conns[1].m.val_SI = 5 /\ conns[1].p.val_SI = 10
    /\ comp.is_set["pr"] /\ comp.val["pr"] = 9 * (HDen \div 10)
    /\ conns[2].p.val_SI = 9 /\ conns[2].m.val_SI = 5
    /\ Len(res) >= 4 /\ res[Len(res) - 1] >= ConvTol

-----------------------------------------------------------------------------
(* Function specification: the row functions of the components and the     *)
(* conversion functions of the network, each applied once to an input      *)
(* drawn from a bounded set                                                 *)

\* Separator.additional_equations for an inlet (1) and two outlets (2, 3):
\* the fluid balance of every fluid, then the energy balance of every outlet
Separator_additional_equations(a) ==
    [k \in 1..4 |->
        IF k <= 2
        THEN a.x[1][k] * a.m[1]
             - (a.x[2][k] * a.m[2] + a.x[3][k] * a.m[3])
        ELSE T_mix_ph(a.p[1], a.h[1]) - T_mix_ph(a.p[k - 1], a.h[k - 1])]

\* the derivatives of the fluid balance with the mass flow of the inlet in
\* the fluid columns of the outlets
Separator_additional_derivatives_inlet(a) ==
    [k \in 1..4 |->
        IF k <= 2
        THEN [kind |-> "fluid",
              jac |-> [c \in (0..2) \X (0..4) |->
                         IF c[1] = 0 /\ c[2] = 0 THEN a.x[1][k]
                         ELSE IF c[1] = 0 /\ c[2] = k + 2 THEN a.m[1]
                         ELSE IF c[1] > 0 /\ c[2] = 0 THEN -a.x[c[1] + 1][k]
                         ELSE IF c[1] > 0 /\ c[2] = k + 2 THEN -a.m[1]
                         ELSE 0]]
        ELSE [kind |-> "energy", conn |-> k - 2]]

\* Separator.additional_derivatives: jacobian[k, j, v] of the fluid balance
\* rows for the connection j (0: inlet) and the variable v (0: m, 3 + i:
\* fluid i); the entries of the energy balance rows are results of the
\* property evaluator
Separator_additional_derivatives(a) ==
    [k \in 1..4 |->
        IF k <= 2
        THEN [kind |-> "fluid",
              jac |-> [c \in (0..2) \X (0..4) |->
                         IF c[1] = 0 /\ c[2] = 0 THEN a.x[1][k]
                         ELSE IF c[1] = 0 /\ c[2] = k + 2 THEN a.m[1]
                         ELSE IF c[1] > 0 /\ c[2] = 0 THEN -a.x[c[1] + 1][k]
                         ELSE IF c[1] > 0 /\ c[2] = k + 2
                         THEN -a.m[c[1] + 1]
                         ELSE 0]]
        ELSE [kind |-> "energy", conn |-> k - 2]]

\* Network.set_defaults, the available unit systems: for every property and
\* unit the offset and the factor, as fractions <<numerator, denominator>>
units ==
    LET one == <<1, 1>>
        u(f) == [off |-> <<0, 1>>, f |-> f]
        T == [C |-> [off |-> <<27315, 100>>, f |-> one],
              F |-> [off |-> <<45967, 100>>, f |-> <<5, 9>>],
              K |-> [off |-> <<0, 1>>, f |-> one],
              R |-> [off |-> <<0, 1>>, f |-> <<5, 9>>]]
    IN  [m |-> [kg_s |-> u(one), t_h |-> u(<<36, 10>>)],
         p |-> [Pa |-> u(one), psi |-> u(<<68948, 10>>),
                bar |-> u(<<100000, 1>>), MPa |-> u(<<1000000, 1>>)],
         h |-> [J_kg |-> u(one), kJ_kg |-> u(<<1000, 1>>),
                MJ_kg |-> u(<<1000000, 1>>)],
         vol |-> [m3_kg |-> u(one), l_kg |-> u(<<1, 1000>>)],
         s |-> [J_kgK |-> u(one), kJ_kgK |-> u(<<1000, 1>>),
                MJ_kgK |-> u(<<1000000, 1>>)],
         T |-> T,
         Td_bp |-> T,
         v |-> [m3_s |-> u(one), l_s |-> u(<<1, 1000>>),
                m3_h |-> u(<<1, 3600>>), l_h |-> u(<<10, 36>>)],
         x |-> [none |-> u(one), percent |-> u(<<1, 100>>)]]

\* Network.convert_to_SI of the fraction value
convert_to_SI(property, value, unit) ==
    LET d == units[property][unit]
    IN  IF property = "T"
        THEN <<(value[1] * d.off[2] + d.off[1] * value[2]) * d.f[1],
               value[2] * d.off[2] * d.f[2]>>
        ELSE <<value[1] * d.f[1], value[2] * d.f[2]>>

\* Network.convert_from_SI of the fraction SI_value
convert_from_SI(property, SI_value, unit) ==
    LET d == units[property][unit]
    IN  IF property = "T"
        THEN <<SI_value[1] * d.f[2] * d.off[2]
                 - d.off[1] * SI_value[2] * d.f[1],
               SI_value[2] * d.f[1] * d.off[2]>>
        ELSE <<SI_value[1] * d.f[2], SI_value[2] * d.f[1]>>

\* the inputs: a separator with the mass flows m and the mass fractions x
\* (in 1 / 10000) of oxygen and nitrogen at the inlet and the two outlets;
\* a value, a property and one of its units
InitFn ==
    /\ InitObjects([nf |-> 1,
                    conns |-> <<Feed(1, 2, 16, 3 * HDen, Pure(1)),
                                Connection(1)>>,
                    comp |-> Trough({"pr", "Q"}, {}, {}, {}),
                    ports |-> Layout, bus |-> Bus(FALSE)])
    /\ out = <<>>
    /\ arg \in
         { [fn |-> "separator",
            m |-> <<mi, m1, m2>>,
            x |-> <<<<xi, 10000 - xi>>, <<x1, 10000 - x1>>,
                    <<x2, 10000 - x2>>>>,
            p |-> <<10, 10, 10>>,
            h |-> <<3 * HDen, 3 * HDen, 3 * HDen>>] :
             mi \in {5, 4}, m1 \in {1, 2}, m2 \in {4, 3},
             xi \in {2300, 5000}, x1 \in {1000, 2300}, x2 \in {2625, 5000} }
         \cup
         { [fn |-> "convert", property |-> k[1], unit |-> k[2],
            value |-> <<v, 1>>] :
             k \in { k \in (DOMAIN units) \X
                            {"kg_s", "t_h", "Pa", "psi", "bar", "MPa", "J_kg",
                             "kJ_kg", "MJ_kg", "m3_kg", "l_kg", "J_kgK",
                             "kJ_kgK", "MJ_kgK", "C", "F", "K", "R", "m3_s",
                             "l_s", "m3_h", "l_h", "none", "percent"} :
                        k[2] \in DOMAIN units[k[1]] },
             v \in {1, 20, -40} }
         \cup
         { [fn |-> "heat_exchanger", nf |-> nf, is_set |-> S,
            residual |-> r, it |-> i, always_all_equations |-> al,
            increment_filter |->
                [c \in (0..3) \X (0..2) |->
                    IF f = "none" THEN FALSE ELSE IF f = "all" THEN TRUE
                    ELSE c[1] = 0]] :
             nf \in {1, 2},
             S \in SUBSET {"Q", "kA", "kA_char", "ttd_u", "ttd_l", "pr1",
                           "pr2", "zeta1", "zeta2"},
             r \in {0, err * err, -(err * err + 1)}, i \in {3, 4},
             al \in BOOLEAN, f \in {"none", "all", "in1"} }
         \cup
         { [fn |-> "kA", T |-> [i1 |-> i1, i2 |-> i2, o1 |-> o1, o2 |-> o2]] :
             i1 \in {35000, 40000, 40001}, i2 \in {30000, 30002, 36000},
             o1 \in {30001, 35000, 36000}, o2 \in {35000, 40000, 38000} }

\* a function applied to the input arg
Apply(fn, result) ==
    /\ arg.fn = fn
    /\ out = <<>>
    /\ out' = result
    /\ UNCHANGED <<pc, fluids, index, mode, design_path, redesign, checked, conns,
                   comp, bus, num_bus_eq, num_comp_eq, num_conn_eq,
                   num_comp_vars, num_vars, max_iter, min_iter, iter, passes,
                   res, range_checked, lin_dep, progress, exit, log, raised,
                   arg>>

\* equations() and derivatives() of a Separator
separator_rows ==
    Apply("separator",
          [residual |-> Separator_additional_equations(arg),
           jacobian |-> Separator_additional_derivatives(arg)])

\* convert_to_SI of a value, and convert_from_SI of the result
convert ==
    LET SI == convert_to_SI(arg.property, arg.value, arg.unit)
    IN  Apply("convert",
              [SI |-> SI,
               back |-> convert_from_SI(arg.property, SI, arg.unit)])

\* comp_init of a HeatExchanger, and its equations() and derivatives() in a
\* call of solve_components
heat_exchanger_rows ==
    Apply("heat_exchanger",
          [num_eq |-> HeatExchanger_comp_init(arg),
           residual |-> HeatExchanger_equations(arg),
           jacobian |-> HeatExchanger_derivatives(arg)])

\* the rows of kA and kA_char of a HeatExchanger
kA_rows ==
    Apply("kA", [kA |-> kA_func(arg), kA_char |-> kA_char_func(arg)])

NextFn == separator_rows \/ convert \/ heat_exchanger_rows \/ kA_rows

SpecFn == InitFn /\ [][NextFn]_vars

C24_UnitConversion ==
    (out # <<>> /\ arg.fn = "convert") =>
        LET d == units[arg.property][arg.unit]
            f == IF arg.unit = "t_h" THEN <<10, 36>>
                 ELSE IF arg.unit = "l_h" THEN <<1, 3600000>>
                 ELSE d.f
            off == IF arg.property = "T" THEN d.off ELSE <<0, 1>>
            v == arg.value
            SI == <<(v[1] * off[2] + off[1] * v[2]) * f[1],
                    v[2] * off[2] * f[2]>>
        IN  /\ out.SI[1] * SI[2] = SI[1] * out.SI[2]
            /\ out.back[1] * v[2] = v[1] * out.back[2]

\* C25: the row of an optional nonlinear equation of a HeatExchanger (kA,
\* kA_char, zeta1, zeta2) is recomputed in a call, its residual and the
\* finite-difference entries of its Jacobian row, if and only if the residual
\* it held before exceeds the tolerance, or the iteration counter of the
\* component is a multiple of 4, or always_all_equations is set
C25_ThrottledRows ==
    (out # <<>> /\ arg.fn = "heat_exchanger") =>
        LET stale == (IF arg.residual < 0 THEN -arg.residual
                      ELSE arg.residual) > err * err
                     \/ arg.it % 4 = 0
                     \/ arg.always_all_equations
        IN  \A v \in arg.is_set \cap {"kA", "kA_char", "zeta1", "zeta2"} :
                /\ \A r \in out.residual : r.eq = v => (r.evaluated <=> stale)
                /\ \A r \in out.jacobian :
                      r.eq = v => ((r.evaluated # {}) <=> stale)

\* C26: num_eq of a HeatExchanger is 2 * (number of fluids) + 3 + the number
\* of the parameters Q, kA, kA_char, ttd_u, ttd_l, pr1, pr2, zeta1, zeta2
\* that are set; equations() writes the residual rows 0 .. num_eq - 1, each
\* once, and no other; and derivatives() writes the partial derivatives of
\* every optional equation in the row of its residual
C26_RowsMatch ==
    (out # <<>> /\ arg.fn = "heat_exchanger") =>
        /\ out.num_eq = 2 * arg.nf + 3 + Cardinality(arg.is_set)
        /\ {r.row : r \in out.residual} = 0..(out.num_eq - 1)
        /\ Cardinality(out.residual) = out.num_eq
        /\ \A v \in arg.is_set :
              /\ \E r \in out.residual : r.eq = v
              /\ \A r \in out.residual : \A d \in out.jacobian :
                    (r.eq = v /\ d.eq = v) => r.row = d.row
              /\ \E d \in out.jacobian : d.eq = v
        /\ \A d \in out.jacobian : d.eq \in arg.is_set \cup {"energy"}
        /\ \A r \in out.residual : \A d \in out.jacobian :
              (r.eq = "energy" /\ d.eq = "energy") => r.row = d.row

\* a heat exchanger of two fluids with all nine parameters set: sixteen
\* equations, the pressure ratios in the rows 12 and 13 and zeta2 in the last
\* row of the residual vector and of the Jacobian
C26_Witness ==
    /\ out # <<>> /\ arg.fn = "heat_exchanger"
    /\ arg.nf = 2 /\ Cardinality(arg.is_set) = 9
    /\ out.num_eq = 16
    /\ [row |-> 12, eq |-> "pr1", evaluated |-> TRUE] \in out.residual
    /\ [row |-> 13, eq |-> "pr2", evaluated |-> {}] \in out.jacobian
    /\ \E d \in out.jacobian : d.eq = "zeta2" /\ d.row = 15

\* C27: for every combination of the four temperatures kA_func and
\* kA_char_func work with temperatures whose terminal differences
\* T_o1 - T_i2 and T_i1 - T_o2 are both strictly positive, and the
\* logarithmic mean temperature difference, and with it the residual, is a
\* finite number
C27_LogMeanDefined ==
    (out # <<>> /\ arg.fn = "kA") =>
        \A r \in {out.kA, out.kA_char} :
            /\ r.T.o1 - r.T.i2 > 0
            /\ r.T.i1 - r.T.o2 > 0
            /\ r.td_log = "finite"

-----------------------------------------------------------------------------
(* Topology specification: connections are added to and removed from the   *)
(* network between the calls of solve()                                     *)

\* Network.add_conns(*args): every connection is added in its turn and the
\* status checked is reset with it; a label that is in the network already
\* raises ValueError and ends the call
AddConns(args) ==
    LET dup(i) == args[i] \in index \cup {args[j] : j \in 1..(i - 1)}
        n == IF \E i \in DOMAIN args : dup(i)
             THEN (CHOOSE i \in DOMAIN args :
                       dup(i) /\ \A j \in 1..(i - 1) : ~dup(j)) - 1
             ELSE Len(args)
        added == {args[i] : i \in 1..n}
    IN  /\ pc = "idle"
        /\ index' = index \cup added
        /\ conns' = [c \in Conns |->
                        IF c \in added
                        THEN [conns[c] EXCEPT !.good_starting_values = FALSE]
                        ELSE conns[c]]
        /\ checked' = IF n > 0 THEN FALSE ELSE checked
        /\ raised' = IF n < Len(args) THEN "ValueError" ELSE "none"
        /\ UNCHANGED <<pc, fluids, mode, design_path, redesign, comp, bus,
                       num_bus_eq, num_comp_eq, num_conn_eq, num_comp_vars,
                       num_vars, max_iter, min_iter, iter, passes, res,
                       range_checked, lin_dep, progress, exit, log, arg, out>>

\* Network.del_conns(*args): every connection is dropped from the index in
\* its turn, a connection that is not in the index raises KeyError and ends
\* the call; the status checked is reset after the loop
DelConns(args) ==
    LET gone(i) == args[i] \notin index \/ args[i] \in {args[j] : j \in 1..(i - 1)}
        n == IF \E i \in DOMAIN args : gone(i)
             THEN (CHOOSE i \in DOMAIN args :
                       gone(i) /\ \A j \in 1..(i - 1) : ~gone(j)) - 1
             ELSE Len(args)
    IN  /\ pc = "idle"
        /\ index' = index \ {args[i] : i \in 1..n}
        /\ checked' = IF n = Len(args) THEN FALSE ELSE checked
        /\ raised' = IF n < Len(args) THEN "KeyError" ELSE "none"
        /\ UNCHANGED <<pc, fluids, mode, design_path, redesign, conns, comp,
                       bus, num_bus_eq, num_comp_eq, num_conn_eq,
                       num_comp_vars, num_vars, max_iter, min_iter, iter,
                       passes, res, range_checked, lin_dep, progress, exit,
                       log, arg, out>>

\* the calls of a user: connections added and removed, one or two in a call,
\* and design calculations of at most one iteration
NextConns ==
    \/ \E args \in {<<1>>, <<2>>, <<1, 2>>, <<1, 1>>} : AddConns(args)
    \/ \E args \in {<<1>>, <<2>>, <<2, 1>>, <<1, 1>>} : DelConns(args)
    \/ Solve({Call("design", "none", 1, 0, FALSE, TRUE)})
    \/ Pass({9}, CoarseIncrements)
    \/ solve_tail

SpecConns == Init /\ [][NextConns]_vars

\* C28: a call of add_conns or del_conns that adds a connection to the
\* network or removes one from it, a call that ends with an error included,
\* leaves the status checked False, so that checked is True only if the
\* connections are those of the last successful check_network; and solve()
\* starts to iterate only on connections that pass the network check
C28_CheckedIsCurrent ==
    [][/\ index' # index => ~checked'
       /\ (pc = "idle" /\ pc' = "loop") => check_network(conns) = "ok"]_vars

-----------------------------------------------------------------------------
(* Mode cycle specification: one network solved in design mode, then in    *)
(* offdesign mode, then in design mode again; arg keeps the objects as the  *)
(* user handed them to the first call                                       *)

InitCycle ==
    \E nw \in LoopNetworks :
        /\ InitObjects(nw)
        /\ arg = [fn |-> "cycle", conns |-> add_conns(nw.conns, nw.ports),
                  comp |-> nw.comp]
        /\ out = <<>>

NextCycle ==
    \/ /\ ~checked
       /\ Solve({Call("design", "none", 1, 0, FALSE, TRUE)})
    \/ /\ checked /\ ~redesign /\ mode = "design"
       /\ Solve({Call("offdesign", "design_case", 1, 0, FALSE, TRUE)})
    \/ /\ redesign /\ mode = "offdesign"
       /\ Solve({Call("design", "none", 1, 0, FALSE, TRUE)})
    \/ Pass({9, 20}, CoarseIncrements)
    \/ solve_tail

SpecCycle == InitCycle /\ [][NextCycle]_vars

\* C29: in the design calculation that follows an offdesign calculation
\* that followed a design calculation, every connection property and every
\* component parameter named in the design or the offdesign list has the
\* status (fixed, referenced or free) it had in the first design calculation
C29_CycleRestoresStatus ==
    LET status(q) == IF q.val_set THEN "fixed"
                     ELSE IF q.ref_set THEN "referenced" ELSE "free"
    IN  (arg # <<>> /\ arg.fn = "cycle" /\ mode = "design" /\ redesign) =>
            /\ \A c \in Conns :
                  \A n \in (conns[c].design \cup conns[c].offdesign) :
                      status(conns[c][n]) = status(arg.conns[c][n])
            /\ \A v \in (comp.design \cup comp.offdesign) :
                  comp.is_set[v] = arg.comp.is_set[v]

\* C30: no step of solve(), the postprocessing included, changes the target
\* value P of a bus whose P is fixed, the value of a component parameter that
\* is fixed, or the SI value of a temperature or a volumetric flow that is
\* fixed at a connection, whether the loop ended converged or not
C30_FixedSpecificationsKept ==
    [][/\ (bus.P.is_set /\ bus'.P.is_set) => bus'.P.val = bus.P.val
       /\ \A v \in ParamNames :
             (comp.is_set[v] /\ comp'.is_set[v] /\ v \notin comp.is_var
                 /\ v \notin comp.offdesign)
                => comp'.val[v] = comp.val[v]
       /\ \A c \in Conns : \A n \in {"T", "v"} :
             (conns[c][n].val_set /\ conns'[c][n].val_set
                 /\ n \notin conns[c].offdesign)
                => conns'[c][n].val_SI = conns[c][n].val_SI]_vars

====
